---- MODULE Spec2Model ----
(***************************************************************************)
(* HTTP authentication engine of neon (src/src/ne_auth.c): the per-target  *)
(* auth session, the scheme validators (Basic, Digest, GSS-Negotiate), the *)
(* challenge parser and scheme selection, the Digest request header, the   *)
(* Authentication-Info verification and the request lifecycle hooks.       *)
(*                                                                         *)
(* Strings are TLA+ strings; a NULL pointer is the value NULL.  MD5 and    *)
(* base64 are uninterpreted injective functions of the bytes fed to them:  *)
(* an MD5 context is the string of the bytes processed so far.             *)
(***************************************************************************)
EXTENDS Integers, Sequences, FiniteSets, TLC

VARIABLES
    uri_scheme,   \* ne_get_scheme(sess): the HTTP session's scheme
    have_gssapi,  \* whether the build defines HAVE_GSSAPI
    ahs,          \* the registered auth_session objects, in registration order
    req,          \* the request in flight (one at a time), with its auth_request
    error,        \* the HTTP session's error string (ne_set_error)
    last,         \* what the last hook invocation did (return code, callback calls)
    nsent,        \* how many times the HTTP session has sent a request
    wire,         \* what the server has seen of the Digest session (history)
    ucall         \* the last call of the URI and path utilities, with its result

vars == <<uri_scheme, have_gssapi, ahs, req, error, last, nsent, wire, ucall>>

----------------------------------------------------------------------------
(* Bounds of the model *)

\* the HTTP session sends at most MaxSends times in all (first sends and retries)
MaxSends == 3

----------------------------------------------------------------------------
(* Values *)

NULL == "<NULL>"

\* h_a1[33] of a calloc'ed session: 32 NUL bytes are what request_digest feeds
H_A1_ZERO == "<32 NUL>"

\* the local password[NE_ABUFSIZ] before the callback wrote it, and after memset
PW_UNINIT == "<stack>"
PW_ZERO == ""

NE_OK == "NE_OK"
NE_ERROR == "NE_ERROR"
NE_RETRY == "NE_RETRY"
NE_AUTH == "NE_AUTH"
NE_PROXYAUTH == "NE_PROXYAUTH"

ah_server_class ==
    [id |-> "http://webdav.org/neon/hooks/server-auth",
     req_hdr |-> "Authorization", resp_hdr |-> "WWW-Authenticate",
     resp_info_hdr |-> "Authentication-Info",
     fail_msg |-> "Server was not authenticated correctly.",
     status_code |-> 401, fail_code |-> NE_AUTH]

ah_proxy_class ==
    [id |-> "http://webdav.org/neon/hooks/proxy-auth",
     req_hdr |-> "Proxy-Authorization", resp_hdr |-> "Proxy-Authenticate",
     resp_info_hdr |-> "Proxy-Authentication-Info",
     fail_msg |-> "Proxy server was not authenticated correctly.",
     status_code |-> 407, fail_code |-> NE_PROXYAUTH]

\* MD5 of the bytes of a context, as the 32 hex characters ne_md5_to_ascii gives
MD5Hex(ctx) == "md5(" \o ctx \o ")"

\* ne_base64
Base64(s) == "b64(" \o s \o ")"

HexDigits == <<"0", "1", "2", "3", "4", "5", "6", "7",
               "8", "9", "a", "b", "c", "d", "e", "f">>

RECURSIVE HexN(_, _)
HexN(n, width) ==
    IF width = 0 THEN ""
    ELSE HexN(n \div 16, width - 1) \o HexDigits[(n % 16) + 1]

\* ne_snprintf(nc_value, 9, "%08x", n): at most 8 characters are kept
Hex8(n) == HexN(n, 8)

\* ne_concat / ne_buffer_concat: the argument list ends at the first NULL
RECURSIVE Concat(_)
Concat(parts) ==
    IF parts = <<>> \/ Head(parts) = NULL THEN ""
    ELSE Head(parts) \o Concat(Tail(parts))

(***************************************************************************)
(* Header text is kept as the sequence of the pieces concatenated, so that *)
(* its lines can be told apart: "\r\n" is a piece of its own and no other  *)
(* piece holds a line end.  As in Concat, a NULL piece ends the list.      *)
(***************************************************************************)
RECURSIVE Pieces(_)
Pieces(parts) ==
    IF parts = <<>> \/ Head(parts) = NULL THEN <<>>
    ELSE <<Head(parts)>> \o Pieces(Tail(parts))

\* strcasecmp(a, b) == 0 over the tokens the model uses
ToLower(s) ==
    CASE s = "Basic" -> "basic"
      [] s = "BASIC" -> "basic"
      [] s = "Digest" -> "digest"
      [] s = "GSS-Negotiate" -> "gss-negotiate"
      [] s = "MD5" -> "md5"
      [] s = "MD5-sess" -> "md5-sess"
      [] s = "md5-SESS" -> "md5-sess"
      [] s = "TRUE" -> "true"
      [] s = "True" -> "true"
      [] s = "Realm" -> "realm"
      [] OTHER -> s

strcaseeq(a, b) == ToLower(a) = ToLower(b)

----------------------------------------------------------------------------
(* The auth session *)

\* a faulty variant: the two contexts of an https session are exchanged
ContextFor_Exchanged(scheme, isproxy) ==
    IF scheme = "https"
    THEN (IF isproxy THEN "AUTH_NOTCONNECT" ELSE "AUTH_CONNECT")
    ELSE "AUTH_ANY"

\* the context auth_register gives a session of an HTTP session of the scheme
ContextFor(scheme, isproxy) ==
    IF scheme = "https"
    THEN (IF isproxy THEN "AUTH_CONNECT" ELSE "AUTH_NOTCONNECT")
    ELSE "AUTH_ANY"

\* auth_register: the calloc'ed auth_session with its class and context
NewSession(scheme, isproxy, ahc) ==
    [spec |-> ahc,
     context |-> ContextFor(scheme, isproxy),
     scheme |-> "basic",
     username |-> "",
     can_handle |-> FALSE,
     basic |-> NULL,
     gssapi_token |-> NULL,
     realm |-> NULL,
     nonce |-> NULL,
     cnonce |-> NULL,
     opaque |-> NULL,
     qop |-> "none",
     alg |-> "md5",
     nonce_count |-> 0,
     h_a1 |-> H_A1_ZERO,
     stored_rdig |-> "",
     attempt |-> 0]

\* a faulty variant: the realm of the abandoned challenge is left behind
clean_session_KeepsRealm(sess) ==
    [sess EXCEPT !.can_handle = FALSE,
                 !.basic = NULL,
                 !.nonce = NULL,
                 !.cnonce = NULL,
                 !.opaque = NULL,
                 !.gssapi_token = NULL]

clean_session(sess) ==
    [sess EXCEPT !.can_handle = FALSE,
                 !.basic = NULL,
                 !.nonce = NULL,
                 !.cnonce = NULL,
                 !.opaque = NULL,
                 !.realm = NULL,
                 !.gssapi_token = NULL]

(***************************************************************************)
(* The credentials callback is the application's: one call either returns  *)
(* 0 and fills username and password, or returns non-zero.  A validation   *)
(* state st = [sess, crs, calls, password] threads the session, the        *)
(* outcomes of the callback calls still to come, the calls made so far and *)
(* the local password buffer through the validators.                       *)
(***************************************************************************)
CredsOK(u, p) == [ret |-> 0, username |-> u, password |-> p]
CredsCancel == [ret |-> 1, username |-> "", password |-> ""]

\* a faulty variant: the attempt counter is handed over but not increased
get_credentials_NoIncrement(st) ==
    LET cr == Head(st.crs)
        sess == st.sess
    IN [sess |-> [sess EXCEPT !.username = IF cr.ret = 0 THEN cr.username ELSE @],
        crs |-> Tail(st.crs),
        calls |-> Append(st.calls, [realm |-> sess.realm,
                                    attempt |-> sess.attempt,
                                    ret |-> cr.ret]),
        password |-> IF cr.ret = 0 THEN cr.password ELSE PW_UNINIT,
        ret |-> cr.ret]

\* a faulty variant: the callback is handed the attempt counter after its
\* increment
get_credentials_PreIncrement(st) ==
    LET cr == Head(st.crs)
        sess == st.sess
    IN [sess |-> [sess EXCEPT !.attempt = @ + 1,
                              !.username = IF cr.ret = 0 THEN cr.username ELSE @],
        crs |-> Tail(st.crs),
        calls |-> Append(st.calls, [realm |-> sess.realm,
                                    attempt |-> sess.attempt + 1,
                                    ret |-> cr.ret]),
        password |-> IF cr.ret = 0 THEN cr.password ELSE PW_UNINIT,
        ret |-> cr.ret]

\* sess->creds(sess->userdata, sess->realm, sess->attempt++, sess->username, pwd)
get_credentials(st) ==
    LET cr == Head(st.crs)
        sess == st.sess
    IN [sess |-> [sess EXCEPT !.attempt = @ + 1,
                              !.username = IF cr.ret = 0 THEN cr.username ELSE @],
        crs |-> Tail(st.crs),
        calls |-> Append(st.calls, [realm |-> sess.realm,
                                    attempt |-> sess.attempt,
                                    ret |-> cr.ret]),
        password |-> IF cr.ret = 0 THEN cr.password ELSE PW_UNINIT,
        ret |-> cr.ret]

\* a validator's result: the validation state plus its return value
Result(st, sess, password, ret) ==
    [sess |-> sess, crs |-> st.crs, calls |-> st.calls,
     password |-> password, ret |-> ret]

\* a variant: a qop list with a known token counts as a qop directive
GotQop_FromTokens(parms) == parms.qop_auth \/ parms.qop_auth_int

\* if (parms->got_qop): whether digest_challenge saw a qop directive
GotQop(parms) == parms.got_qop

\* whether digest_challenge has to ask for credentials: not on a stale challenge
NeedCredentials(sess, parms) == ~parms.stale

basic_challenge(st, parms) ==
    IF parms.realm = NULL
    THEN Result(st, st.sess, PW_UNINIT, -1)
    ELSE LET s1 == [clean_session(st.sess) EXCEPT !.realm = parms.realm]
             g == get_credentials([st EXCEPT !.sess = s1])
         IN IF g.ret # 0
            THEN Result(g, g.sess, g.password, -1)
            ELSE Result(g,
                        [g.sess EXCEPT
                            !.scheme = "basic",
                            !.basic = Base64(Concat(<<g.sess.username, ":",
                                                      g.password>>))],
                        PW_ZERO, 0)

request_basic(sess) == Pieces(<<"Basic ", sess.basic, "\r\n">>)

request_gssapi(sess) == Pieces(<<"GSS-Negotiate ", sess.gssapi_token, "\r\n">>)

\* gss is the outcome of the security provider: NULL (an error, or an empty
\* output token) or the output token
gssapi_challenge(st, parms, gss) ==
    LET s1 == clean_session(st.sess)
    IN IF gss = NULL
       THEN Result(st, s1, PW_UNINIT, -1)
       ELSE Result(st, [s1 EXCEPT !.gssapi_token = Base64(gss),
                                  !.scheme = "gssapi"],
                   PW_UNINIT, 0)

\* H(A1) as digest_challenge computes it when the challenge is not stale
H_A1(sess, password) ==
    LET tmp == MD5Hex(sess.username \o ":" \o sess.realm \o ":" \o password)
    IN IF sess.alg = "md5_sess"
       THEN MD5Hex(tmp \o ":" \o sess.nonce \o ":" \o sess.cnonce)
       ELSE tmp

\* a faulty variant: MD5-sess is taken without a qop
InvalidDigest_SessWithoutQop(parms) ==
    \/ parms.alg = "unknown"
    \/ parms.realm = NULL
    \/ parms.nonce = NULL

\* "Verify they've given us the right bits": the challenges digest_challenge
\* returns -1 for at once
InvalidDigest(parms) ==
    \/ parms.alg = "unknown"
    \/ (parms.alg = "md5_sess" /\ ~(parms.qop_auth \/ parms.qop_auth_int))
    \/ parms.realm = NULL
    \/ parms.nonce = NULL

\* cn is the client nonce get_cnonce returns
digest_challenge(st, parms, cn) ==
    IF InvalidDigest(parms)
    THEN Result(st, st.sess, PW_UNINIT, -1)
    ELSE LET g == IF ~NeedCredentials(st.sess, parms)
                  THEN Result(st, st.sess, PW_UNINIT, 0)
                  ELSE get_credentials(
                         [st EXCEPT !.sess = [clean_session(st.sess)
                                                EXCEPT !.realm = parms.realm]])
         IN IF g.ret # 0
            THEN Result(g, g.sess, g.password, -1)
            ELSE LET s3 == [g.sess EXCEPT
                              !.alg = parms.alg,
                              !.scheme = "digest",
                              !.nonce = parms.nonce,
                              !.cnonce = cn,
                              !.opaque = IF parms.opaque # NULL
                                         THEN parms.opaque ELSE @,
                              !.nonce_count = IF GotQop(parms) THEN 0 ELSE @,
                              !.qop = IF GotQop(parms)
                                      THEN (IF parms.qop_auth_int
                                            THEN "auth_int" ELSE "auth")
                                      ELSE "none"]
                 IN IF parms.stale
                    THEN Result(g, s3, g.password, 0)
                    ELSE Result(g, [s3 EXCEPT !.h_a1 = H_A1(s3, g.password)],
                                PW_ZERO, 0)

----------------------------------------------------------------------------
(* The Digest request header *)

qop_value_of(qop) == IF qop = "auth_int" THEN "auth-int" ELSE "auth"

(***************************************************************************)
(* request_digest(sess, req): body is what ne_pull_request_body feeds the  *)
(* body digest.  Gives the session afterwards (nonce_count, stored_rdig)   *)
(* and the header value.                                                   *)
(***************************************************************************)
request_digest(sess, areq, body) ==
    LET with_qop == sess.qop # "none"
        count == IF with_qop THEN sess.nonce_count + 1 ELSE sess.nonce_count
        nc_value == IF with_qop THEN Hex8(count) ELSE ""
        qop_value == qop_value_of(sess.qop)
        a2 == areq.method \o ":" \o areq.uri \o
              (IF sess.qop = "auth_int" THEN ":" \o MD5Hex(body) ELSE "")
        a2_md5_ascii == MD5Hex(a2)
        rdig0 == sess.h_a1 \o ":" \o sess.nonce \o ":"
        stored == IF with_qop
                  THEN rdig0 \o nc_value \o ":" \o sess.cnonce \o ":"
                  ELSE rdig0
        rdig == IF with_qop THEN stored \o qop_value \o ":" ELSE stored
        rdig_md5_ascii == MD5Hex(rdig \o a2_md5_ascii)
        head == Pieces(<<"Digest username=\"", sess.username, "\", ",
                         "realm=\"", sess.realm, "\", ",
                         "nonce=\"", sess.nonce, "\", ",
                         "uri=\"", areq.uri, "\", ",
                         "response=\"", rdig_md5_ascii, "\", ",
                         "algorithm=\"",
                         IF sess.alg = "md5" THEN "MD5" ELSE "MD5-sess",
                         "\"">>)
        opaque == IF sess.opaque # NULL
                  THEN Pieces(<<", opaque=\"", sess.opaque, "\"">>)
                  ELSE <<>>
        tail == IF with_qop
                THEN Pieces(<<", cnonce=\"", sess.cnonce, "\", ",
                              "nc=", nc_value, ", ",
                              "qop=\"", qop_value, "\"">>)
                ELSE <<>>
    IN [sess |-> [sess EXCEPT !.nonce_count = count, !.stored_rdig = stored],
        value |-> head \o opaque \o tail \o <<"\r\n">>]

----------------------------------------------------------------------------
(* Header values *)

(***************************************************************************)
(* A header value is modelled by what tokenize yields on it, in order: a   *)
(* bare scheme token (value NULL), or a key with its value after           *)
(* ne_shave stripped the quotes.  The value of a qop pair is kept as the   *)
(* tokens ne_token splits it into at ','.                                  *)
(***************************************************************************)
Token(k) == [key |-> k, bare |-> TRUE, val |-> "", toks |-> <<>>]
Pair(k, v) == [key |-> k, bare |-> FALSE, val |-> v, toks |-> <<>>]
QopPair(ts) == [key |-> "qop", bare |-> FALSE, val |-> "", toks |-> ts]

\* ne_calloc(sizeof *chall)
NewChallenge ==
    [scheme |-> "basic", realm |-> NULL, nonce |-> NULL, opaque |-> NULL,
     stale |-> FALSE, got_qop |-> FALSE, qop_auth |-> FALSE,
     qop_auth_int |-> FALSE, alg |-> "md5"]

\* the scheme a bare token names, or NULL for an unknown scheme
SchemeOf(key) ==
    IF strcaseeq(key, "basic") THEN "basic"
    ELSE IF strcaseeq(key, "digest") THEN "digest"
    ELSE IF have_gssapi /\ strcaseeq(key, "gss-negotiate") THEN "gssapi"
    ELSE NULL

RECURSIVE QopTokens(_, _)
QopTokens(chall, toks) ==
    IF toks = <<>> THEN chall
    ELSE QopTokens(
           IF strcaseeq(Head(toks), "auth") THEN [chall EXCEPT !.qop_auth = TRUE]
           ELSE IF strcaseeq(Head(toks), "auth-int")
                THEN [chall EXCEPT !.qop_auth_int = TRUE]
                ELSE chall,
           Tail(toks))

\* one key=value pair applied to the challenge being filled in
SetParam(chall, item) ==
    IF strcaseeq(item.key, "realm") THEN [chall EXCEPT !.realm = item.val]
    ELSE IF strcaseeq(item.key, "nonce") THEN [chall EXCEPT !.nonce = item.val]
    ELSE IF strcaseeq(item.key, "opaque") THEN [chall EXCEPT !.opaque = item.val]
    ELSE IF strcaseeq(item.key, "stale")
         THEN [chall EXCEPT !.stale = strcaseeq(item.val, "true")]
    ELSE IF strcaseeq(item.key, "algorithm")
         THEN [chall EXCEPT !.alg =
                 IF strcaseeq(item.val, "md5") THEN "md5"
                 ELSE IF strcaseeq(item.val, "md5-sess") THEN "md5_sess"
                 ELSE "unknown"]
    ELSE IF strcaseeq(item.key, "qop") THEN QopTokens(chall, item.toks)
    ELSE chall

(***************************************************************************)
(* The parsing loop of auth_challenge: challenges is the linked list, its  *)
(* head the challenge opened last (chall->next = challenges; challenges =  *)
(* chall), and the pairs go to its head.  An unknown scheme empties the    *)
(* list and ends the loop.                                                 *)
(***************************************************************************)
\* a faulty variant: an unknown scheme ends the loop but the challenges
\* parsed before it are kept
RECURSIVE ParseChallenges_KeepsEarlier(_, _)
ParseChallenges_KeepsEarlier(items, challenges) ==
    IF items = <<>> THEN challenges
    ELSE LET item == Head(items)
         IN IF item.bare
            THEN IF SchemeOf(item.key) = NULL
                 THEN challenges
                 ELSE ParseChallenges_KeepsEarlier(
                        Tail(items),
                        <<[NewChallenge EXCEPT !.scheme = SchemeOf(item.key)]>>
                          \o challenges)
            ELSE IF challenges = <<>>
                 THEN ParseChallenges_KeepsEarlier(Tail(items), challenges)
                 ELSE ParseChallenges_KeepsEarlier(
                        Tail(items),
                        <<SetParam(Head(challenges), item)>> \o Tail(challenges))

RECURSIVE ParseChallenges(_, _)
ParseChallenges(items, challenges) ==
    IF items = <<>> THEN challenges
    ELSE LET item == Head(items)
         IN IF item.bare
            THEN IF SchemeOf(item.key) = NULL
                 THEN <<>>
                 ELSE ParseChallenges(
                        Tail(items),
                        <<[NewChallenge EXCEPT !.scheme = SchemeOf(item.key)]>>
                          \o challenges)
            ELSE IF challenges = <<>>
                 THEN ParseChallenges(Tail(items), challenges)
                 ELSE ParseChallenges(
                        Tail(items),
                        <<SetParam(Head(challenges), item)>> \o Tail(challenges))

----------------------------------------------------------------------------
(* Scheme selection *)

(***************************************************************************)
(* The for-loops of auth_challenge: the first challenge of the scheme, in  *)
(* list order, that its validator accepts.  A selection state sel holds    *)
(* the validation state st, the validators run so far with what they       *)
(* returned and what their local password buffer held on return (tried)    *)
(* and the challenge accepted (chall).                                     *)
(***************************************************************************)
Tried(sel, r, chall) ==
    [st |-> r,
     tried |-> Append(sel.tried,
                      [scheme |-> chall.scheme, ret |-> r.ret, parms |-> chall,
                       calls |-> Len(r.calls) - Len(sel.st.calls),
                       kept |-> r.sess = sel.st.sess,
                       password |-> r.password]),
     chall |-> IF r.ret = 0 THEN chall ELSE sel.chall]

RECURSIVE TryGssapi(_, _, _)
TryGssapi(sel, challs, gss) ==
    IF challs = <<>> THEN sel
    ELSE IF Head(challs).scheme = "gssapi"
         THEN LET r == Tried(sel, gssapi_challenge(sel.st, Head(challs), gss),
                             Head(challs))
              IN IF r.st.ret = 0 THEN r ELSE TryGssapi(r, Tail(challs), gss)
         ELSE TryGssapi(sel, Tail(challs), gss)

RECURSIVE TryDigest(_, _, _)
TryDigest(sel, challs, cn) ==
    IF challs = <<>> THEN sel
    ELSE IF Head(challs).scheme = "digest"
         THEN LET r == Tried(sel, digest_challenge(sel.st, Head(challs), cn),
                             Head(challs))
              IN IF r.st.ret = 0 THEN r ELSE TryDigest(r, Tail(challs), cn)
         ELSE TryDigest(sel, Tail(challs), cn)

RECURSIVE TryBasic(_, _)
TryBasic(sel, challs) ==
    IF challs = <<>> THEN sel
    ELSE IF Head(challs).scheme = "basic"
         THEN LET r == Tried(sel, basic_challenge(sel.st, Head(challs)),
                             Head(challs))
              IN IF r.st.ret = 0 THEN r ELSE TryBasic(r, Tail(challs))
         ELSE TryBasic(sel, Tail(challs))

\* the selection state auth_challenge starts from: success = 0
StartState(sess, crs) ==
    [st |-> [sess |-> sess, crs |-> crs, calls |-> <<>>,
             password |-> PW_UNINIT, ret |-> -1],
     tried |-> <<>>,
     chall |-> NewChallenge]

\* the three loops of auth_challenge, each run while success is still 0
OrElseGssapi(sel, challenges, gss) ==
    IF have_gssapi /\ sel.st.ret # 0 THEN TryGssapi(sel, challenges, gss) ELSE sel

OrElseDigest(sel, challenges, cn) ==
    IF sel.st.ret # 0 THEN TryDigest(sel, challenges, cn) ELSE sel

OrElseBasic(sel, challenges) ==
    IF sel.st.ret # 0 THEN TryBasic(sel, challenges) ELSE sel

\* a faulty variant: Basic challenges are tried before Digest ones
SelectScheme_BasicBeforeDigest(sel0, challenges, gss, cn) ==
    OrElseDigest(OrElseBasic(OrElseGssapi(sel0, challenges, gss),
                             challenges),
                 challenges, cn)

\* GSSAPI (when compiled in), then Digest, then Basic, until one succeeds
SelectScheme(sel0, challenges, gss, cn) ==
    OrElseBasic(OrElseDigest(OrElseGssapi(sel0, challenges, gss),
                             challenges, cn),
                challenges)

(***************************************************************************)
(* auth_challenge(sess, value): returns 0 if a challenge was accepted.     *)
(* crs, gss and cn are the outcomes of the credentials callback, of the    *)
(* security provider and of get_cnonce.  accepted names the scheme whose   *)
(* validator returned 0, or NULL.                                          *)
(***************************************************************************)
Selected(sel) ==
    [sess |-> [sel.st.sess EXCEPT !.can_handle = (sel.st.ret = 0)],
     calls |-> sel.st.calls,
     tried |-> sel.tried,
     accepted |-> IF sel.st.ret = 0 THEN sel.chall.scheme ELSE NULL,
     chall |-> sel.chall,
     ret |-> IF sel.st.ret = 0 THEN 0 ELSE -1]

Challenged(sess, challenges, crs, gss, cn) ==
    IF challenges = <<>>
    THEN [sess |-> sess, calls |-> <<>>, tried |-> <<>>,
          accepted |-> NULL, chall |-> NewChallenge, ret |-> -1]
    ELSE Selected(SelectScheme(StartState(sess, crs), challenges, gss, cn))

auth_challenge(sess, value, crs, gss, cn) ==
    Challenged(sess, ParseChallenges(value, <<>>), crs, gss, cn)

----------------------------------------------------------------------------
(* Authentication-Info *)

\* sscanf(val, "%x", &nonce_count): the value read, or -1 when nothing is read
HexTable == [k \in 0..15 |-> Hex8(k)]
SscanfHex(val) ==
    IF \E k \in 0..15 : HexTable[k] = val
    THEN CHOOSE k \in 0..15 : HexTable[k] = val
    ELSE -1

\* ne_md5_finish_ctx works in the context: the padding is processed into it
Finished(ctx) == ctx \o "<pad>"

\* the locals of verify_response before the loop; nonce_count is not initialised
InfoStart(uninit) ==
    [qop |-> "none", qop_value |-> NULL, nextnonce |-> NULL, rspauth |-> NULL,
     cnonce |-> NULL, nc |-> NULL, nonce_count |-> uninit]

RECURSIVE ParseInfo(_, _)
ParseInfo(items, p) ==
    IF items = <<>> THEN p
    ELSE LET key == Head(items).key
             val == Head(items).val
             q == IF strcaseeq(key, "qop")
                  THEN [p EXCEPT !.qop_value = val,
                                 !.qop = IF strcaseeq(val, "auth-int") THEN "auth_int"
                                         ELSE IF strcaseeq(val, "auth") THEN "auth"
                                         ELSE "none"]
                  ELSE IF strcaseeq(key, "nextnonce") THEN [p EXCEPT !.nextnonce = val]
                  ELSE IF strcaseeq(key, "rspauth") THEN [p EXCEPT !.rspauth = val]
                  ELSE IF strcaseeq(key, "cnonce") THEN [p EXCEPT !.cnonce = val]
                  ELSE IF strcaseeq(key, "nc")
                       THEN [p EXCEPT !.nc = val,
                                      !.nonce_count = IF SscanfHex(val) # -1
                                                      THEN SscanfHex(val) ELSE @]
                  ELSE p
         IN ParseInfo(Tail(items), q)

\* H(A2) of the response digest: the method is empty
ResponseA2(areq, qop) ==
    MD5Hex(":" \o areq.uri \o
           (IF qop = "auth_int" THEN ":" \o MD5Hex(areq.response_body) ELSE ""))

\* the bytes of the response digest: the stored half, the qop value, H(A2)
ResponseDigestCtx(sess, areq, qop, qop_value) ==
    sess.stored_rdig \o qop_value \o ":" \o ResponseA2(areq, qop)

\* verify_response once the loop has parsed the header into p
Verified(areq, sess, p) ==
    LET checked == /\ p.qop # "none" /\ p.qop_value # NULL
                   /\ p.rspauth # NULL /\ p.cnonce # NULL /\ p.nc # NULL
                   /\ p.cnonce = sess.cnonce
                   /\ p.nonce_count = sess.nonce_count
        ctx == ResponseDigestCtx(sess, areq, p.qop, p.qop_value)
        okay == IF p.qop # "none" /\ p.qop_value # NULL
                THEN (IF checked /\ strcaseeq(MD5Hex(ctx), p.rspauth)
                      THEN 0 ELSE -1)
                ELSE 0
        s1 == IF checked THEN [sess EXCEPT !.stored_rdig = Finished(ctx)]
              ELSE sess
        a1 == IF checked /\ p.qop = "auth_int"
              THEN [areq EXCEPT !.response_body = Finished(@)]
              ELSE areq
    IN [sess |-> IF p.nextnonce # NULL
                 THEN [s1 EXCEPT !.nonce = p.nextnonce] ELSE s1,
        areq |-> a1,
        okay |-> okay,
        installed |-> p.nextnonce]

\* a faulty variant: the header is verified whether or not pre_send supplied
\* credentials for the request
verify_response_AnyRequest(areq, sess, value, uninit) ==
    IF sess.scheme # "digest"
    THEN [sess |-> sess, areq |-> areq, okay |-> -1, installed |-> NULL]
    ELSE Verified(areq, sess, ParseInfo(value, InfoStart(uninit)))

(***************************************************************************)
(* verify_response(req, sess, value): 0 if the header authenticates the    *)
(* server.  uninit is the value the uninitialised local nonce_count holds. *)
(***************************************************************************)
verify_response(areq, sess, value, uninit) ==
    IF ~areq.will_handle
    THEN [sess |-> sess, areq |-> areq, okay |-> 0, installed |-> NULL]
    ELSE IF sess.scheme # "digest"
    THEN [sess |-> sess, areq |-> areq, okay |-> -1, installed |-> NULL]
    ELSE Verified(areq, sess, ParseInfo(value, InfoStart(uninit)))

----------------------------------------------------------------------------
(* The request and what the model feeds the hooks *)

ClassIds == {ah_server_class.id, ah_proxy_class.id}

\* ne_get_request_private gives NULL: no auth_request is attached
NoAreq ==
    [present |-> FALSE, uri |-> "", method |-> "", will_handle |-> FALSE,
     response_body |-> "", readers |-> 0, auth_hdr |-> <<>>,
     auth_info_hdr |-> <<>>]

NoRequest ==
    [phase |-> "none", method |-> "", uri |-> "", body |-> "", buf |-> <<>>, private |-> [id \in ClassIds |-> NoAreq]]

\* the auth_request of the request in flight for auth session i
Areq(i) == req.private[ahs[i].spec.id]

Methods == {"GET", "CONNECT"}
Uris == {"/dir/index.html"}
Statuses == {401, 407}

CredsOutcomes == {CredsOK("u1", "p1"), CredsCancel}
Cnonces == {"c1"}
GssOutcomes == {NULL, "token"}

\* values of the challenge header a response may carry
ChallengeHeaders ==
    { <<>>,
      <<Token("Basic"), Pair("realm", "r1")>>,
      <<Token("BASIC"), Token("Digest"), Pair("realm", "r1")>>,
      <<Token("Digest"), Pair("Realm", "r1"), Pair("nonce", "n1")>>,
      <<Token("Digest"), Pair("realm", "r1"), Pair("nonce", "n2"),
        Pair("stale", "true"), QopPair(<<"auth">>)>>,
      <<Token("Digest"), Pair("realm", "r2"), Pair("nonce", "n2"),
        Pair("stale", "TRUE")>>,
      <<Token("Basic"), Pair("realm", "r1"),
        Token("Digest"), Pair("realm", "r1"), Pair("nonce", "n1"),
        QopPair(<<"auth">>)>>,
      <<Token("Basic"), Pair("realm", "r1"), Token("GSS-Negotiate"),
        Token("Digest"), Pair("realm", "r1"), Pair("nonce", "n1")>> }

\* values of the challenge header that exercise the validation of Digest
\* challenges: algorithms, missing parameters, qop lists
DigestHeaders ==
    { <<Token("Digest"), Pair("realm", "r1"), Pair("nonce", "n1"),
        Pair("algorithm", "MD5-sess")>>,
      <<Token("Digest"), Pair("realm", "r1"), Pair("nonce", "n1"),
        Pair("algorithm", "SHA-256"), QopPair(<<"auth">>)>>,
      <<Token("Digest"), Pair("nonce", "n1")>>,
      <<Token("Digest"), Pair("realm", "r1")>>,
      <<Token("Digest"), Pair("realm", "r1"), Pair("nonce", "n1"),
        Pair("algorithm", "md5-SESS"), QopPair(<<"auth-int">>)>>,
      <<Token("Digest"), Pair("realm", "r1"), Pair("nonce", "n1"),
        Pair("algorithm", "MD5")>>,
      <<Token("Basic"), Pair("realm", "r1"),
        Token("Digest"), Pair("realm", "r1"), Pair("algorithm", "MD5-sess"),
        Pair("nonce", "n1")>>,
      <<Token("Digest"), Pair("realm", "r1"), Pair("nonce", "n1"),
        Token("Digest"), Pair("realm", "r2"), Pair("nonce", "n2")>> }

\* values of the info header a response may carry
InfoHeaders ==
    { <<Pair("nextnonce", "n2")>>,
      <<Pair("rspauth", "deadbeef")>>,
      <<Pair("qop", "auth"), Pair("rspauth", "deadbeef")>> }

\* a header that was not captured is a NULL pointer: <<>>; a captured one <<value>>
Captured(values) == {<<>>} \cup {<<v>> : v \in values}

\* the number of challenges a header value opens: no more callback calls are made
RECURSIVE NumTokens(_)
NumTokens(items) ==
    IF items = <<>> THEN 0
    ELSE (IF Head(items).bare THEN 1 ELSE 0) + NumTokens(Tail(items))

\* the names of the scheme tokens of a header value, in the header's order
RECURSIVE TokenNames(_)
TokenNames(items) ==
    IF items = <<>> THEN <<>>
    ELSE (IF Head(items).bare THEN <<ToLower(Head(items).key)>> ELSE <<>>)
           \o TokenNames(Tail(items))

(***************************************************************************)
(* What the last hook invocation did, and of which auth session (i).  Of a *)
(* post_send: the return value,                                            *)
(* the credentials callback calls, the validators run, the scheme and the  *)
(* challenge accepted, the outcome of verify_response, and of its inputs   *)
(* whether the status was the class's, whether the challenge and info      *)
(* headers were captured, the scheme tokens of the challenge header, the    *)
(* info header captured and the challenge header value auth_challenge was  *)
(* called with (value; <<>> when it was not called).  absent holds what    *)
(* the same post_send returns and leaves in the session when the info      *)
(* header of the response is taken away; it is computed for a request      *)
(* pre_send supplied no credentials for.                                   *)
(***************************************************************************)
NoLast == [op |-> "none", i |-> 1, ret |-> NE_OK, calls |-> <<>>, tried |-> <<>>,
           accepted |-> NULL, chall |-> NewChallenge, verify |-> "none",
           installed |-> NULL, gated |-> FALSE, hdr |-> FALSE,
           info |-> FALSE, info_hdr |-> <<>>, schemes |-> <<>>,
           value |-> <<>>, absent |-> [ret |-> NE_OK, sess |-> <<>>]]

----------------------------------------------------------------------------
(* Registration and the lifecycle hooks *)

(***************************************************************************)
(* No call of the URI and path utilities has been made.                    *)
(***************************************************************************)
NoUriCall == [op |-> "none"]

(***************************************************************************)
(* The history of the Digest session as its server has seen it: whether    *)
(* the challenge the session answers offered a qop, how the nonce in use   *)
(* came to the session (a challenge, or the nextnonce of an info header)   *)
(* and how many requests with credentials have been sent under it since,   *)
(* counted when a qop was offered.                                         *)
(***************************************************************************)
NoWire == [offered |-> FALSE, via |-> "none", k |-> 0]

\* the history after a post_send with the result r
WireAfter(w, r) ==
    IF r.accepted = "digest"
    THEN [offered |-> r.chall.qop_auth \/ r.chall.qop_auth_int,
          via |-> "challenge", k |-> 0]
    ELSE IF ~r.sess.can_handle \/ r.sess.scheme # "digest" THEN NoWire
    ELSE IF r.installed # NULL THEN [w EXCEPT !.via = "nextnonce", !.k = 0]
    ELSE w

auth_register(scheme, isproxy) ==
    NewSession(scheme, isproxy,
               IF isproxy THEN ah_proxy_class ELSE ah_server_class)

\* ne_set_server_auth or ne_set_proxy_auth on a new HTTP session
Init ==
    /\ uri_scheme \in {"http", "https"}
    /\ have_gssapi \in BOOLEAN
    /\ \E isproxy \in BOOLEAN : ahs = <<auth_register(uri_scheme, isproxy)>>
    /\ req = NoRequest
    /\ error = ""
    /\ last = NoLast
    /\ nsent = 0
    /\ wire = NoWire
    /\ ucall = NoUriCall

\* a faulty variant: a session for all but CONNECT requests admits CONNECT too
ContextAdmits_NotConnectAdmitsAll(sess, method) ==
    \/ sess.context \in {"AUTH_ANY", "AUTH_NOTCONNECT"}
    \/ (method = "CONNECT" /\ sess.context = "AUTH_CONNECT")

\* whether the context filter of the session admits a request of the method
ContextAdmits(sess, method) ==
    LET is_connect == method = "CONNECT"
    IN \/ sess.context = "AUTH_ANY"
       \/ (is_connect /\ sess.context = "AUTH_CONNECT")
       \/ (~is_connect /\ sess.context = "AUTH_NOTCONNECT")

\* a request is created and the create hook of auth session i runs
ah_create(i, method, uri) ==
    /\ req.phase = "none"
    /\ nsent < MaxSends
    /\ LET sess == ahs[i]
           attach == ContextAdmits(sess, method)
           areq == [NoAreq EXCEPT !.present = TRUE, !.method = method, !.uri = uri]
       IN /\ req' = [NoRequest EXCEPT
                       !.phase = "created", !.method = method, !.uri = uri,
                       !.private[sess.spec.id] = IF attach THEN areq ELSE NoAreq]
          /\ ahs' = [ahs EXCEPT ![i].attempt = IF attach THEN 0 ELSE @]
    /\ last' = [NoLast EXCEPT !.op = "create", !.i = i]
    /\ UNCHANGED <<uri_scheme, have_gssapi, error, nsent, wire, ucall>>

\* the request line the engine has put in the buffer before the hooks run
RequestHead(r) == <<r.method, " ", r.uri, " HTTP/1.1", "\r\n">>

\* the switch of ah_pre_send with what follows it: the line appended for the
\* session's scheme, nothing when value is NULL
RequestLine(sess, areq, body) ==
    IF sess.scheme = "basic"
    THEN <<sess.spec.req_hdr, ": ">> \o request_basic(sess)
    ELSE IF sess.scheme = "digest"
    THEN <<sess.spec.req_hdr, ": ">> \o request_digest(sess, areq, body).value
    ELSE IF have_gssapi /\ sess.scheme = "gssapi"
    THEN <<sess.spec.req_hdr, ": ">> \o request_gssapi(sess)
    ELSE <<>>

\* a faulty variant: the request's auth_request is not looked at
WillHandle_AnyRequest(sess, areq) == sess.can_handle

\* if (!sess->can_handle || !req): whether pre_send supplies credentials
WillHandle(sess, areq) == sess.can_handle /\ areq.present

\* the body of ah_pre_send for auth session i: the credentials line is
\* appended to the request
PreSend(i) ==
    /\ LET sess == ahs[i]
           areq == Areq(i)
           handle == WillHandle(sess, areq)
           a1 == IF sess.qop = "auth_int"
                 THEN [areq EXCEPT !.will_handle = TRUE, !.response_body = "",
                                   !.readers = @ + 1]
                 ELSE [areq EXCEPT !.will_handle = TRUE]
       IN /\ req' = [req EXCEPT
                       !.phase = "sent",
                       !.buf = IF handle
                               THEN RequestHead(req)
                                      \o RequestLine(sess, areq, req.body)
                               ELSE RequestHead(req),
                       !.private[sess.spec.id] = IF handle THEN a1 ELSE @]
          /\ ahs' = [ahs EXCEPT ![i] = IF handle /\ sess.scheme = "digest"
                                       THEN request_digest(sess, areq, req.body).sess
                                       ELSE @]
          /\ wire' = IF handle /\ sess.scheme = "digest" /\ wire.offered
                     THEN [wire EXCEPT !.k = @ + 1] ELSE wire
    /\ last' = [NoLast EXCEPT !.op = "pre_send", !.i = i]
    /\ UNCHANGED <<uri_scheme, have_gssapi, error, ucall>>

\* the request is sent (again): the pre_send hook of auth session i runs
ah_pre_send(i) ==
    /\ req.phase \in {"created", "retry"}
    /\ nsent < MaxSends
    /\ nsent' = nsent + 1
    /\ PreSend(i)

RECURSIVE Repeat(_, _)
Repeat(s, n) == IF n = 0 THEN "" ELSE s \o Repeat(s, n - 1)

\* the response as the engine hands it to the hooks: the header handlers
\* ah_create registered have captured the class's challenge and info headers
\* (hdr, info), the body readers have digested the body
Received(areq, hdr, info, body) ==
    IF areq.present
    THEN [areq EXCEPT !.auth_hdr = hdr,
                      !.auth_info_hdr = info,
                      !.response_body = @ \o Repeat(body, areq.readers)]
    ELSE areq

\* a faulty variant: any challenge status counts, whatever the class
IsChallengeStatus_AnyClass(sess, status) == status \in {401, 407}

\* status->code == sess->spec->status_code
IsChallengeStatus(sess, status) == status = sess.spec.status_code

\* a faulty variant: the request is failed even when a challenge was accepted
ChallengeResult_AlwaysFail(sess, c_ret) == sess.spec.fail_code

\* what ah_post_send returns once auth_challenge has returned c_ret
ChallengeResult(sess, c_ret) ==
    IF c_ret = 0 THEN NE_RETRY ELSE sess.spec.fail_code

\* the headers ah_post_send frees and resets
FreeHeaders(areq) == [areq EXCEPT !.auth_hdr = <<>>, !.auth_info_hdr = <<>>]

\* a faulty variant: the info header is looked at for Digest sessions only
VerifyInfo_DigestOnly(sess, areq, uninit) ==
    IF areq.auth_info_hdr # <<>> /\ sess.scheme = "digest"
    THEN verify_response(areq, sess, areq.auth_info_hdr[1], uninit)
    ELSE [sess |-> sess, areq |-> areq, okay |-> 0, installed |-> NULL]

\* the first step of ah_post_send: the info header, if captured, is verified
VerifyInfo(sess, areq, uninit) ==
    IF areq.auth_info_hdr # <<>>
    THEN verify_response(areq, sess, areq.auth_info_hdr[1], uninit)
    ELSE [sess |-> sess, areq |-> areq, okay |-> 0, installed |-> NULL]

\* a faulty variant: the request is retried whatever auth_challenge returned
AfterChallenge_AlwaysRetry(sess, areq, verify, installed, c) ==
    [sess |-> IF c.ret = 0 THEN c.sess ELSE clean_session(c.sess),
     areq |-> areq,
     ret |-> NE_RETRY,
     error |-> NULL,
     calls |-> c.calls,
     tried |-> c.tried,
     accepted |-> c.accepted,
     chall |-> c.chall,
     verify |-> verify,
     installed |-> installed]

\* the branch of ah_post_send that has run auth_challenge, c its result
AfterChallenge(sess, areq, verify, installed, c) ==
    [sess |-> IF c.ret = 0 THEN c.sess ELSE clean_session(c.sess),
     areq |-> areq,
     ret |-> ChallengeResult(sess, c.ret),
     error |-> NULL,
     calls |-> c.calls,
     tried |-> c.tried,
     accepted |-> c.accepted,
     chall |-> c.chall,
     verify |-> verify,
     installed |-> installed]

\* a faulty variant: a rejected info header is handled as a failed challenge
InfoFailure_AsFailedChallenge(sess, none) ==
    [none EXCEPT !.sess = clean_session(@), !.ret = sess.spec.fail_code]

\* the branch of ah_post_send taken when verify_response has rejected the
\* info header: the error string is set and NE_ERROR returned
InfoFailure(sess, none) ==
    [none EXCEPT !.ret = NE_ERROR, !.error = sess.spec.fail_msg]

\* ah_post_send after the info header step, v its result
AfterVerify(sess, areq, status, v, crs, gss, cn) ==
    LET verify == IF areq.auth_info_hdr = <<>> THEN "none"
                  ELSE IF v.okay = 0 THEN "ok" ELSE "rejected"
        none == [sess |-> v.sess, areq |-> FreeHeaders(v.areq), ret |-> NE_OK,
                 error |-> NULL, calls |-> <<>>, tried |-> <<>>,
                 accepted |-> NULL, chall |-> NewChallenge, verify |-> verify,
                 installed |-> v.installed]
    IN IF v.okay # 0
       THEN InfoFailure(sess, none)
       ELSE IF IsChallengeStatus(sess, status) /\ areq.auth_hdr # <<>>
       THEN AfterChallenge(sess, FreeHeaders(v.areq), verify, v.installed,
                           auth_challenge(v.sess, areq.auth_hdr[1], crs, gss, cn))
       ELSE none

(***************************************************************************)
(* ah_post_send(req, cookie, status) as a function of the session, the     *)
(* auth_request and the status: the session and auth_request afterwards,   *)
(* the return value, the error string set (or NULL) and what happened:     *)
(* the callback calls, the validators run, the challenge accepted, the     *)
(* outcome of verify_response and the nextnonce it installed (or NULL).    *)
(***************************************************************************)
post_send(sess, areq, status, crs, gss, cn, uninit) ==
    IF ~areq.present
    THEN [sess |-> sess, areq |-> areq, ret |-> NE_OK, error |-> NULL,
          calls |-> <<>>, tried |-> <<>>, accepted |-> NULL,
          chall |-> NewChallenge, verify |-> "none", installed |-> NULL]
    ELSE AfterVerify(sess, areq, status, VerifyInfo(sess, areq, uninit),
                     crs, gss, cn)

\* the response has arrived and the post_send hook of auth session i runs
ah_post_send(i, status, hdr, info, crs, gss, cn, uninit) ==
    /\ req.phase = "sent"
    /\ \E areq \in {Received(Areq(i), hdr, info, "body")} :
       \E r \in {post_send(ahs[i], areq, status, crs, gss, cn, uninit)} :
       \E r0 \in {IF areq.auth_info_hdr # <<>> /\ ~areq.will_handle
                  THEN post_send(ahs[i], [areq EXCEPT !.auth_info_hdr = <<>>],
                                 status, crs, gss, cn, uninit)
                  ELSE r} :
          /\ ahs' = [ahs EXCEPT ![i] = r.sess]
          /\ req' = [req EXCEPT
                       !.phase = IF r.ret = NE_RETRY THEN "retry" ELSE "done",
                       !.buf = <<>>,
                       !.private[ahs[i].spec.id] = r.areq]
          /\ error' = IF r.error # NULL THEN r.error ELSE error
          /\ wire' = WireAfter(wire, r)
          /\ last' = [op |-> "post_send", i |-> i,
                      ret |-> r.ret, calls |-> r.calls,
                      tried |-> r.tried, accepted |-> r.accepted,
                      chall |-> r.chall, verify |-> r.verify,
                      installed |-> r.installed,
                      gated |-> status = ahs[i].spec.status_code,
                      hdr |-> areq.auth_hdr # <<>>,
                      info |-> areq.auth_info_hdr # <<>>,
                      info_hdr |-> areq.auth_info_hdr,
                      schemes |-> IF areq.auth_hdr # <<>>
                                  THEN TokenNames(areq.auth_hdr[1]) ELSE <<>>,
                      value |-> IF /\ areq.present /\ r.verify # "rejected"
                                   /\ IsChallengeStatus(ahs[i], status)
                                   /\ areq.auth_hdr # <<>>
                                THEN areq.auth_hdr[1] ELSE <<>>,
                      absent |-> [ret |-> r0.ret, sess |-> r0.sess]]
    /\ UNCHANGED <<uri_scheme, have_gssapi, nsent, ucall>>

\* the request is destroyed: the auth_request is freed
ah_destroy(i) ==
    /\ req.phase \in {"done", "retry"}
    /\ req' = NoRequest
    /\ last' = [NoLast EXCEPT !.op = "destroy", !.i = i]
    /\ UNCHANGED <<uri_scheme, have_gssapi, ahs, error, nsent, wire, ucall>>

\* ne_get_session_private(sess, id): the auth sessions registered under the
\* id, of which the lookup gives one; 0 stands for NULL, nothing registered
SessionPrivate(id) ==
    IF \E i \in 1..Len(ahs) : ahs[i].spec.id = id
    THEN {i \in 1..Len(ahs) : ahs[i].spec.id = id}
    ELSE {0}

\* ne_forget_auth, called between two requests
ne_forget_auth ==
    /\ req.phase = "none"
    /\ \E as_server \in SessionPrivate(ah_server_class.id),
          as_proxy \in SessionPrivate(ah_proxy_class.id) :
          ahs' = [i \in 1..Len(ahs) |->
                    IF i \in {as_server, as_proxy}
                    THEN clean_session(ahs[i]) ELSE ahs[i]]
    /\ last' = [NoLast EXCEPT !.op = "forget"]
    /\ wire' = NoWire
    /\ UNCHANGED <<uri_scheme, have_gssapi, req, error, nsent, ucall>>

\* whether a header value names the scheme
RECURSIVE HasScheme(_, _)
HasScheme(items, scheme) ==
    /\ items # <<>>
    /\ \/ (Head(items).bare /\ SchemeOf(Head(items).key) = scheme)
       \/ HasScheme(Tail(items), scheme)

\* the outcomes the callbacks of one post_send may have; an outcome that no
\* call can ask for is not enumerated
CredsRuns(hdr) ==
    [1..(IF hdr = <<>> THEN 0 ELSE NumTokens(hdr[1])) -> CredsOutcomes]
GssRuns(hdr) ==
    IF hdr # <<>> /\ HasScheme(hdr[1], "gssapi") THEN GssOutcomes ELSE {NULL}
CnonceRuns(hdr) ==
    IF hdr # <<>> /\ HasScheme(hdr[1], "digest") THEN Cnonces ELSE {"c1"}
RECURSIVE HasBadNc(_)
HasBadNc(items) ==
    /\ items # <<>>
    /\ \/ (strcaseeq(Head(items).key, "nc") /\ SscanfHex(Head(items).val) = -1)
       \/ HasBadNc(Tail(items))
UninitRuns(info) ==
    IF info # <<>> /\ HasBadNc(info[1]) THEN {0, 1} ELSE {0}

\* the steps of an HTTP session whose responses carry the challenge headers
\* Hdrs and the info headers Infos
NextOn(Hdrs, Infos) ==
    \/ \E i \in 1..Len(ahs), method \in Methods, uri \in Uris :
          ah_create(i, method, uri)
    \/ \E i \in 1..Len(ahs) : ah_pre_send(i)
    \/ \E i \in 1..Len(ahs), status \in Statuses :
          \E hdr \in Captured(Hdrs), info \in Captured(Infos) :
             \E crs \in CredsRuns(hdr), gss \in GssRuns(hdr),
                cn \in CnonceRuns(hdr), uninit \in UninitRuns(info) :
                ah_post_send(i, status, hdr, info, crs, gss, cn, uninit)
    \/ \E i \in 1..Len(ahs) : ah_destroy(i)
    \/ ne_forget_auth

Next == NextOn(ChallengeHeaders, InfoHeaders)

Spec == Init /\ [][Next]_vars

\* the same session when the servers send the Digest challenges above
NextDigest == NextOn(DigestHeaders, InfoHeaders)

SpecDigest == Init /\ [][NextDigest]_vars

----------------------------------------------------------------------------
(* Registration on an HTTP session *)

\* the number of ne_set_server_auth and ne_set_proxy_auth calls followed
MaxSessions == 2

\* the challenge headers the servers of this HTTP session send
RegHeaders == { <<Token("Basic"), Pair("realm", "r1")>> }

\* the info headers the servers of this HTTP session send
RegInfoHeaders == { <<Pair("nextnonce", "n2")>> }

\* ne_set_server_auth, called between two requests: auth_register allocates
\* an auth session and registers its hooks
ne_set_server_auth ==
    /\ req.phase = "none"
    /\ Len(ahs) < MaxSessions
    /\ ahs' = Append(ahs, auth_register(uri_scheme, FALSE))
    /\ last' = [NoLast EXCEPT !.op = "register", !.i = Len(ahs) + 1]
    /\ UNCHANGED <<uri_scheme, have_gssapi, req, error, nsent, wire, ucall>>

\* ne_set_proxy_auth, called between two requests
ne_set_proxy_auth ==
    /\ req.phase = "none"
    /\ Len(ahs) < MaxSessions
    /\ ahs' = Append(ahs, auth_register(uri_scheme, TRUE))
    /\ last' = [NoLast EXCEPT !.op = "register", !.i = Len(ahs) + 1]
    /\ UNCHANGED <<uri_scheme, have_gssapi, req, error, nsent, wire, ucall>>

\* an HTTP session on which nothing is registered yet
InitReg ==
    /\ uri_scheme \in {"http", "https"}
    /\ have_gssapi \in BOOLEAN
    /\ ahs = <<>>
    /\ req = NoRequest
    /\ error = ""
    /\ last = NoLast
    /\ nsent = 0
    /\ wire = NoWire
    /\ ucall = NoUriCall

\* the application registers auth sessions and sends requests; the hooks of a
\* request are followed for one auth session
NextReg ==
    \/ ne_set_server_auth
    \/ ne_set_proxy_auth
    \/ NextOn(RegHeaders, RegInfoHeaders)

SpecReg == InitReg /\ [][NextReg]_vars

----------------------------------------------------------------------------
(* Servers that answer with Authentication-Info *)

\* the challenges of a server that offers a qop, with MD5 and with MD5-sess,
\* and renews its nonce with a stale challenge; a Basic challenge besides
VerifyHeaders ==
    { <<Token("Digest"), Pair("realm", "r1"), Pair("nonce", "n1"),
        QopPair(<<"auth">>)>>,
      <<Token("Digest"), Pair("realm", "r1"), Pair("nonce", "n1"),
        Pair("algorithm", "MD5-sess"), QopPair(<<"auth">>)>>,
      <<Token("Digest"), Pair("realm", "r1"), Pair("nonce", "n2"),
        Pair("stale", "true"), Pair("algorithm", "MD5-sess"),
        QopPair(<<"auth">>)>>,
      <<Token("Basic"), Pair("realm", "r1")>> }

\* the response digest a server holding the password of u1 sends for the
\* request to uri, computed as RFC 2617 3.2.3 has it for qop=auth
ServerRspauth(nonce, nc, cnonce, uri) ==
    MD5Hex(MD5Hex("u1:r1:p1") \o ":" \o nonce \o ":" \o nc \o ":" \o cnonce
           \o ":" \o "auth" \o ":" \o MD5Hex(":" \o uri))

\* the response digest over the bytes a client that sent no qop has digested
ShortRspauth(nonce, uri) ==
    MD5Hex(MD5Hex("u1:r1:p1") \o ":" \o nonce \o ":" \o "auth" \o ":"
           \o MD5Hex(":" \o uri))

\* the info headers of such a server: complete ones with a digest that is
\* right for the RFC, right for the bytes digested and wrong, the last with
\* a nextnonce; one without cnonce and nc but with a nextnonce
VerifyInfoHeaders ==
    { <<Pair("qop", "auth"), Pair("cnonce", "c1"), Pair("nc", "00000000"),
        Pair("rspauth", ServerRspauth("n1", "00000000", "c1", "/dir/index.html"))>>,
      <<Pair("qop", "auth"), Pair("cnonce", "c1"), Pair("nc", "00000000"),
        Pair("rspauth", ShortRspauth("n1", "/dir/index.html"))>>,
      <<Pair("qop", "auth"), Pair("cnonce", "c1"), Pair("nc", "00000000"),
        Pair("rspauth", "deadbeef"), Pair("nextnonce", "n3")>>,
      <<Pair("qop", "auth"), Pair("rspauth", "deadbeef"),
        Pair("nextnonce", "n3")>> }

NextVerify == NextOn(VerifyHeaders, VerifyInfoHeaders)

SpecVerify == Init /\ [][NextVerify]_vars

----------------------------------------------------------------------------
(* Properties of ah_post_send *)

\* the last step was the post_send hook
PostSent == last.op = "post_send"

\* the session is Idle: clean_session has cleared it
Idle(sess) ==
    /\ ~sess.can_handle
    /\ sess.basic = NULL /\ sess.nonce = NULL /\ sess.cnonce = NULL
    /\ sess.opaque = NULL /\ sess.realm = NULL

\* the fail code of the class of a session
FailCode(sess) ==
    IF sess.spec.id = ah_server_class.id THEN NE_AUTH ELSE NE_PROXYAUTH

(***************************************************************************)
(* C1: when post_send saw the class's status and a captured challenge      *)
(* header, and the validator of one of the header's challenges accepted    *)
(* it, post_send returned NE_RETRY and the session can handle requests.    *)
(***************************************************************************)
C1_AcceptedChallengeRetries ==
    (PostSent /\ last.gated /\ last.hdr /\ last.accepted # NULL)
       => (last.ret = NE_RETRY /\ ahs[last.i].can_handle)

C1_Witness ==
    /\ PostSent /\ last.gated /\ last.hdr
    /\ last.accepted = "digest"
    /\ last.ret = NE_RETRY
    /\ ahs[last.i].can_handle

(***************************************************************************)
(* C2 as stated: when post_send saw the class's status and a captured      *)
(* challenge header and no challenge was accepted, it returned the class's *)
(* fail code and left the session Idle.                                    *)
(***************************************************************************)
C2_RejectedChallengeFails ==
    (PostSent /\ last.gated /\ last.hdr /\ last.accepted = NULL)
       => (last.ret = FailCode(ahs[last.i]) /\ Idle(ahs[last.i]))

(***************************************************************************)
(* C2 amended: the same, provided no captured info header failed its       *)
(* verification, which ends post_send with NE_ERROR before the challenge   *)
(* header is looked at.                                                    *)
(***************************************************************************)
C2_RejectedChallengeFailsUnlessInfoRejected ==
    (PostSent /\ last.gated /\ last.hdr /\ last.accepted = NULL
       /\ last.verify # "rejected")
       => (last.ret = FailCode(ahs[last.i]) /\ Idle(ahs[last.i]))

\* every validator run rejected, the credentials callback having declined
C2_Witness ==
    /\ PostSent /\ last.gated /\ last.hdr
    /\ last.accepted = NULL /\ last.verify # "rejected"
    /\ last.tried # <<>> /\ last.calls # <<>>
    /\ last.ret = NE_AUTH
    /\ Idle(ahs[last.i])

(***************************************************************************)
(* C3: a post_send that captured no info header, and whose status was not  *)
(* the class's or that captured no challenge header, returns NE_OK and     *)
(* leaves the auth session as it was.                                      *)
(***************************************************************************)
C3_NothingToDoIsOK ==
    [][ (req.phase = "sent" /\ last'.op = "post_send" /\ ~last'.info
           /\ (~last'.gated \/ ~last'.hdr))
          => (last'.ret = NE_OK /\ ahs' = ahs) ]_vars

\* a challenge header under another class's status, the session being Ready
C3_Witness ==
    /\ PostSent /\ ~last.info /\ ~last.gated /\ last.hdr
    /\ last.ret = NE_OK
    /\ ahs[last.i].can_handle /\ ahs[last.i].scheme = "digest"

----------------------------------------------------------------------------
(* Properties of ah_create and ah_pre_send *)

\* the session is the server's, not the proxy's
IsServer(sess) == sess.spec.id = ah_server_class.id

\* the request header of the class of a session
ReqHdr(sess) == IF IsServer(sess) THEN "Authorization" ELSE "Proxy-Authorization"

\* the number of places of a sequence that hold x
CountIn(seq, x) == Cardinality({k \in 1..Len(seq) : seq[k] = x})

\* what a pre_send step appended to the request buffer
Appended == SubSeq(req'.buf, Len(RequestHead(req)) + 1, Len(req'.buf))

(***************************************************************************)
(* C4: pre_send appends a credentials header exactly when the session can  *)
(* handle requests and the request has an auth_request.  It then appends   *)
(* one line, the class's request header name, ": ", a value and the line   *)
(* end, and sets will_handle; otherwise it appends nothing.                *)
(***************************************************************************)
C4_PreSendCredentials ==
    [][ last'.op = "pre_send" =>
          /\ SubSeq(req'.buf, 1, Len(RequestHead(req))) = RequestHead(req)
          /\ IF ahs[last'.i].can_handle /\ Areq(last'.i).present
             THEN /\ Len(Appended) >= 4
                  /\ Appended[1] = ReqHdr(ahs[last'.i])
                  /\ Appended[2] = ": "
                  /\ Appended[Len(Appended)] = "\r\n"
                  /\ CountIn(Appended, "\r\n") = 1
                  /\ req'.private[ahs[last'.i].spec.id].will_handle
             ELSE /\ Appended = <<>>
                  /\ req'.private = req.private ]_vars

\* a proxy's Digest credentials have been appended
C4_Witness ==
    /\ last.op = "pre_send"
    /\ ~IsServer(ahs[last.i]) /\ ahs[last.i].scheme = "digest"
    /\ Areq(last.i).will_handle
    /\ Len(req.buf) > Len(RequestHead(req))
    /\ req.buf[Len(RequestHead(req)) + 1] = "Proxy-Authorization"

(***************************************************************************)
(* C5: the context of a session is the one its registration gave it: for   *)
(* an https HTTP session NotConnect for the server and Connect for the     *)
(* proxy, and Any for another scheme.                                      *)
(***************************************************************************)
C5_ContextFixedAtRegistration ==
    \A i \in 1..Len(ahs) :
       ahs[i].context = IF uri_scheme = "https"
                        THEN (IF IsServer(ahs[i])
                              THEN "AUTH_NOTCONNECT" ELSE "AUTH_CONNECT")
                        ELSE "AUTH_ANY"

\* an https proxy session has authenticated a CONNECT request
C5_Witness ==
    /\ uri_scheme = "https" /\ ~IsServer(ahs[1])
    /\ ahs[1].context = "AUTH_CONNECT"
    /\ PostSent /\ last.accepted # NULL /\ req.method = "CONNECT"

\* Any admits every request, Connect only CONNECT, NotConnect all but CONNECT
Admits(context, method) ==
    \/ context = "AUTH_ANY"
    \/ (context = "AUTH_CONNECT" /\ method = "CONNECT")
    \/ (context = "AUTH_NOTCONNECT" /\ method # "CONNECT")

(***************************************************************************)
(* C6: a request has an auth_request exactly when the context of the       *)
(* session admits its method.  For a request without one pre_send adds no  *)
(* credentials header, and post_send returns NE_OK and leaves the session  *)
(* as it was, whatever the status.                                         *)
(***************************************************************************)
C6_ContextFilter ==
    /\ [](req.phase # "none" =>
            \A i \in 1..Len(ahs) :
               Areq(i).present <=> Admits(ahs[i].context, req.method))
    /\ [][ (last'.op = "pre_send" /\ ~Areq(last'.i).present)
              => req'.buf = RequestHead(req) ]_vars
    /\ [][ (req.phase = "sent" /\ last'.op = "post_send"
              /\ ~Areq(last'.i).present)
              => (last'.ret = NE_OK /\ ahs' = ahs) ]_vars

\* a CONNECT request through an authenticated https server session got a 401
C6_Witness ==
    /\ uri_scheme = "https" /\ IsServer(ahs[last.i])
    /\ req.method = "CONNECT" /\ ~Areq(last.i).present
    /\ PostSent /\ last.gated /\ last.ret = NE_OK
    /\ ahs[last.i].can_handle

----------------------------------------------------------------------------
(* Properties of the scheme selection *)

\* the place of a scheme in the order of preference
Rank(scheme) ==
    CASE scheme = "gssapi" -> 1
      [] scheme = "digest" -> 2
      [] OTHER -> 3

\* how many validators of the scheme the last post_send ran
TriedOf(scheme) ==
    Cardinality({k \in 1..Len(last.tried) : last.tried[k].scheme = scheme})

(***************************************************************************)
(* C7: the validators run in the order Negotiate, Digest, Basic whatever   *)
(* the order of the challenges in the header, up to the first that         *)
(* accepts, whose scheme becomes the session's.  A Digest validator runs   *)
(* only after every Negotiate challenge of the header was rejected, and a  *)
(* Basic one only after every Negotiate and Digest challenge was.          *)
(***************************************************************************)
C7_PreferenceOrder ==
    PostSent =>
       /\ \A j, k \in 1..Len(last.tried) :
             j < k => /\ Rank(last.tried[j].scheme) <= Rank(last.tried[k].scheme)
                      /\ last.tried[j].ret # 0
       /\ last.accepted # NULL =>
             /\ last.tried # <<>>
             /\ last.tried[Len(last.tried)].scheme = last.accepted
             /\ last.tried[Len(last.tried)].ret = 0
             /\ ahs[last.i].scheme = last.accepted
       /\ TriedOf("digest") + TriedOf("basic") > 0 =>
             (have_gssapi =>
                TriedOf("gssapi") = CountIn(last.schemes, "gss-negotiate"))
       /\ TriedOf("basic") > 0 =>
             TriedOf("digest") = CountIn(last.schemes, "digest")

\* Basic came first in the header and Negotiate was rejected: Digest is chosen
C7_Witness ==
    /\ PostSent /\ have_gssapi
    /\ last.schemes = <<"basic", "gss-negotiate", "digest">>
    /\ Len(last.tried) = 2
    /\ last.tried[1].scheme = "gssapi" /\ last.tried[1].ret = -1
    /\ last.tried[2].scheme = "digest" /\ last.tried[2].ret = 0
    /\ last.accepted = "digest"
    /\ ahs[last.i].scheme = "digest"

----------------------------------------------------------------------------
(* Properties of the Digest session *)

\* the fields the scheme of a session needs are there
Populated(sess) ==
    CASE sess.scheme = "basic" -> sess.basic # NULL
      [] sess.scheme = "digest" ->
           /\ sess.h_a1 # H_A1_ZERO
           /\ sess.nonce # NULL
           /\ sess.cnonce # NULL
      [] sess.scheme = "gssapi" -> sess.gssapi_token # NULL

(***************************************************************************)
(* C8: a session that can handle requests has its scheme's fields: the     *)
(* Basic blob; for Digest an H(A1) derived from the credentials the        *)
(* callback gave, the nonce and the client nonce; the Negotiate token.     *)
(***************************************************************************)
C8_ReadyIsPopulated ==
    \A i \in 1..Len(ahs) : ahs[i].can_handle => Populated(ahs[i])

\* the pieces of seq are found side by side in the buffer
Carries(buf, seq) ==
    \E k \in 1..(Len(buf) - Len(seq) + 1) :
       SubSeq(buf, k, k + Len(seq) - 1) = seq

\* the session of the last hook holds credentials for the realm of the stale
\* Digest challenge that hook has accepted
StaleReplay(sess, l) ==
    /\ l.op = "post_send" /\ l.gated
    /\ l.accepted = "digest" /\ l.chall.stale
    /\ sess.h_a1 # H_A1_ZERO
    /\ sess.realm = l.chall.realm

(***************************************************************************)
(* C9: when a session holding credentials gets a stale Digest challenge    *)
(* for its realm with a new nonce, the credentials callback is not called, *)
(* username and H(A1) stay, the nonce is installed and post_send returns   *)
(* NE_RETRY; the request sent again carries the new nonce and              *)
(* nc=00000001.                                                            *)
(***************************************************************************)
C9_StaleReplay ==
    /\ [][ (req.phase = "sent" /\ StaleReplay(ahs[last'.i], last'))
             => /\ last'.calls = <<>>
                /\ ahs'[last'.i].username = ahs[last'.i].username
                /\ ahs'[last'.i].h_a1 = ahs[last'.i].h_a1
                /\ ahs'[last'.i].nonce = last'.chall.nonce
                /\ last'.ret = NE_RETRY ]_vars
    /\ [][ (StaleReplay(ahs[last.i], last) /\ last'.op = "pre_send")
             => /\ Carries(req'.buf, <<"nonce=\"", last.chall.nonce, "\", ">>)
                /\ Carries(req'.buf, <<"nc=", "00000001">>) ]_vars

(***************************************************************************)
(* C10: a stale Digest challenge is accepted without asking for            *)
(* credentials only when its realm is the realm the session holds          *)
(* credentials for; otherwise the callback is called and H(A1) is derived  *)
(* from what it gave.                                                      *)
(***************************************************************************)
C10_StaleNeedsMatchingRealm ==
    [][ (/\ req.phase = "sent" /\ last'.op = "post_send"
         /\ last'.accepted = "digest" /\ last'.chall.stale
         /\ \/ ahs[last'.i].realm # last'.chall.realm
            \/ ahs[last'.i].h_a1 = H_A1_ZERO)
          => /\ last'.calls # <<>>
             /\ \E cr \in CredsOutcomes :
                   /\ cr.ret = 0
                   /\ ahs'[last'.i].username = cr.username
                   /\ ahs'[last'.i].h_a1 = H_A1(ahs'[last'.i], cr.password) ]_vars

----------------------------------------------------------------------------
(* Properties of the Digest qop and nonce count *)

\* the qop a Digest challenge asks for: auth-int before auth before none
OfferedQop(chall) ==
    IF chall.qop_auth_int THEN "auth_int"
    ELSE IF chall.qop_auth THEN "auth"
    ELSE "none"

(***************************************************************************)
(* C11: once a Digest challenge is accepted the qop of the session is      *)
(* auth-int if the qop list of the challenge held auth-int, else auth if   *)
(* it held auth, else none.                                                *)
(***************************************************************************)
C11_QopSelection ==
    (PostSent /\ last.accepted = "digest")
       => ahs[last.i].qop = OfferedQop(last.chall)

\* the nonce count k as it goes on the wire: 8 lowercase hex digits
NcText(k) == "0000000" \o HexDigits[k + 1]

(***************************************************************************)
(* C12: a request with the credentials of a Digest session whose challenge *)
(* offered a qop carries an nc field, and the k-th such request since the  *)
(* nonce came to the session carries nc = k as 8 lowercase hex digits.     *)
(***************************************************************************)
C12_NonceCountOnTheWire ==
    [][ (/\ last'.op = "pre_send"
         /\ ahs[last'.i].can_handle /\ Areq(last'.i).present
         /\ ahs[last'.i].scheme = "digest" /\ wire.offered)
          => /\ wire'.k = wire.k + 1
             /\ Carries(req'.buf, <<"nc=", NcText(wire'.k), ", ">>) ]_vars

\* the last step, a post_send, put a nonce into the session
NonceReplaced(l, sess) ==
    /\ l.op = "post_send"
    /\ l.accepted = "digest" \/ l.installed # NULL
    /\ sess.nonce # NULL

C14_NextNonce ==
    /\ [][ (/\ req.phase = "sent" /\ last'.op = "post_send"
            /\ last'.verify = "ok" /\ last'.installed # NULL
            /\ last'.accepted = NULL /\ last'.ret = NE_OK)
             => /\ ahs'[last'.i].nonce = last'.installed
                /\ ahs'[last'.i].nonce_count = 0 ]_vars
    /\ [][ (/\ last'.op = "pre_send"
            /\ ahs[last'.i].can_handle /\ Areq(last'.i).present
            /\ ahs[last'.i].scheme = "digest"
            /\ wire.offered /\ wire.via = "nextnonce" /\ wire.k = 0)
             => /\ Carries(req'.buf, <<"nonce=\"", ahs[last'.i].nonce, "\", ">>)
                /\ Carries(req'.buf, <<"nc=", "00000001", ", ">>) ]_vars

----------------------------------------------------------------------------
(* Properties of the Authentication-Info verification *)

\* the value the pairs of a header value give a key (the last one), or NULL
RECURSIVE Field(_, _)
Field(items, key) ==
    IF items = <<>> THEN NULL
    ELSE IF Field(Tail(items), key) # NULL THEN Field(Tail(items), key)
    ELSE IF ~Head(items).bare /\ ToLower(Head(items).key) = key
         THEN Head(items).val
         ELSE NULL

\* what an info header must hold to authenticate the response to a request
\* sent with the Digest credentials of the session under a qop
InfoAuthenticates(items, sess, areq) ==
    /\ Field(items, "rspauth") # NULL
    /\ Field(items, "cnonce") # NULL
    /\ Field(items, "nc") # NULL
    /\ Field(items, "cnonce") = sess.cnonce
    /\ Field(items, "nc") = NcText(sess.nonce_count)
    /\ ToLower(Field(items, "rspauth"))
         = ToLower(MD5Hex(ResponseDigestCtx(sess, areq, sess.qop,
                                            qop_value_of(sess.qop))))

(***************************************************************************)
(* C15: the info header of the response to a request sent with Digest      *)
(* credentials for a challenge that offered a qop is accepted only if it   *)
(* holds rspauth, cnonce and nc, the cnonce is the session's, the nc is    *)
(* the session's nonce count and rspauth is the response digest; any       *)
(* other info header is rejected and post_send returns NE_ERROR.           *)
(***************************************************************************)
C15_InfoVerification ==
    [][ (/\ req.phase = "sent" /\ last'.op = "post_send" /\ last'.info
         /\ Areq(last'.i).will_handle
         /\ ahs[last'.i].scheme = "digest" /\ wire.offered
         /\ ~InfoAuthenticates(last'.info_hdr[1], ahs[last'.i], Areq(last'.i)))
          => (last'.verify = "rejected" /\ last'.ret = NE_ERROR) ]_vars

(***************************************************************************)
(* C16: when verify_response rejects the info header, post_send returns    *)
(* NE_ERROR, the error string of the HTTP session is the message of the    *)
(* class, no challenge of the response is processed (no validator runs,    *)
(* no callback is called, nothing is accepted) and the session keeps       *)
(* can_handle, scheme, username and H(A1).                                 *)
(***************************************************************************)
C16_RejectedInfoIsFatal ==
    [][ (req.phase = "sent" /\ last'.op = "post_send"
         /\ last'.verify = "rejected")
          => (/\ last'.ret = NE_ERROR
              /\ error' = ahs[last'.i].spec.fail_msg
              /\ error' = (IF IsServer(ahs[last'.i])
                           THEN "Server was not authenticated correctly."
                           ELSE "Proxy server was not authenticated correctly.")
              /\ last'.tried = <<>> /\ last'.calls = <<>>
              /\ last'.accepted = NULL
              /\ ahs'[last'.i].can_handle = ahs[last'.i].can_handle
              /\ ahs'[last'.i].scheme = ahs[last'.i].scheme
              /\ ahs'[last'.i].username = ahs[last'.i].username
              /\ ahs'[last'.i].h_a1 = ahs[last'.i].h_a1) ]_vars

\* a Digest session's response carried both a challenge header, under the
\* class's status, and an info header that was rejected
C16_Witness ==
    /\ PostSent /\ last.verify = "rejected" /\ last.ret = NE_ERROR
    /\ last.gated /\ last.hdr /\ last.info
    /\ ahs[last.i].can_handle /\ ahs[last.i].scheme = "digest"
    /\ ahs[last.i].h_a1 # H_A1_ZERO
    /\ error = ahs[last.i].spec.fail_msg

----------------------------------------------------------------------------
(* Properties of the validators *)

(***************************************************************************)
(* C17: if a call of the credentials callback made while post_send         *)
(* validates the challenges of a response returns non-zero, post_send      *)
(* returns the fail code of the class and not NE_RETRY, whatever other     *)
(* challenges the header holds.                                            *)
(***************************************************************************)
C17_CallbackFailureIsFatal ==
    (PostSent /\ \E k \in 1..Len(last.calls) : last.calls[k].ret # 0)
        => (last.ret = FailCode(ahs[last.i]) /\ last.ret # NE_RETRY)

\* what the validation of a Digest challenge requires
ValidDigest(parms) ==
    /\ parms.realm # NULL
    /\ parms.nonce # NULL
    /\ parms.alg # "unknown"
    /\ parms.alg = "md5_sess" => (parms.qop_auth \/ parms.qop_auth_int)

(***************************************************************************)
(* C18: digest_challenge accepts a challenge only if it has a realm and a  *)
(* nonce, its algorithm is known and, for MD5-sess, its qop list holds     *)
(* auth or auth-int; a challenge failing one of these is rejected with no  *)
(* call of the credentials callback and the session as it was.             *)
(***************************************************************************)
C18_DigestValidation ==
    PostSent =>
       \A k \in 1..Len(last.tried) :
          last.tried[k].scheme = "digest" =>
             /\ last.tried[k].ret = 0 => ValidDigest(last.tried[k].parms)
             /\ ~ValidDigest(last.tried[k].parms) =>
                   /\ last.tried[k].ret = -1
                   /\ last.tried[k].calls = 0
                   /\ last.tried[k].kept

\* an MD5-sess challenge without a qop was rejected, leaving the session
\* alone, and the Basic challenge of the header was accepted after it
C18_Witness ==
    /\ PostSent /\ Len(last.tried) = 2
    /\ last.tried[1].scheme = "digest" /\ last.tried[1].ret = -1
    /\ last.tried[1].parms.alg = "md5_sess"
    /\ last.tried[1].parms.realm = "r1" /\ last.tried[1].parms.nonce = "n1"
    /\ last.tried[1].calls = 0 /\ last.tried[1].kept
    /\ last.accepted = "basic" /\ Len(last.calls) = 1

\* the number of callback calls made by the validators run before the k-th
RECURSIVE CallsBefore(_, _)
CallsBefore(tried, k) ==
    IF k <= 1 THEN 0 ELSE tried[k - 1].calls + CallsBefore(tried, k - 1)

(***************************************************************************)
(* C19: basic_challenge rejects a challenge without a realm and does not   *)
(* call the credentials callback for it.  For a challenge with a realm it  *)
(* calls the callback once, with that realm and the attempt counter of     *)
(* the session; it rejects the challenge when the callback returns         *)
(* non-zero, and when it returns zero the session holds the base64 of      *)
(* username ":" password.  A request sent by a session holding Basic       *)
(* credentials carries "Basic " and that blob.                             *)
(***************************************************************************)
C19_BasicChallenge ==
    [][ /\ (req.phase = "sent" /\ last'.op = "post_send") =>
            \A k \in 1..Len(last'.tried) :
               last'.tried[k].scheme = "basic" =>
                  IF last'.tried[k].parms.realm = NULL
                  THEN last'.tried[k].ret = -1 /\ last'.tried[k].calls = 0
                  ELSE /\ last'.tried[k].calls = 1
                       /\ \E c \in {last'.calls[CallsBefore(last'.tried, k) + 1]} :
                             /\ c.realm = last'.tried[k].parms.realm
                             /\ c.attempt = ahs[last'.i].attempt
                                               + CallsBefore(last'.tried, k)
                             /\ c.ret # 0 => last'.tried[k].ret = -1
                             /\ c.ret = 0 =>
                                   /\ last'.tried[k].ret = 0
                                   /\ last'.accepted = "basic"
                                   /\ ahs'[last'.i].scheme = "basic"
                                   /\ ahs'[last'.i].username = "u1"
                                   /\ ahs'[last'.i].basic = Base64("u1:p1")
        /\ (last'.op = "pre_send" /\ ahs[last'.i].can_handle
             /\ Areq(last'.i).present /\ ahs[last'.i].scheme = "basic") =>
               Appended = <<ReqHdr(ahs[last'.i]), ": ", "Basic ",
                            ahs[last'.i].basic, "\r\n">> ]_vars

\* a request carries the Basic credentials the callback gave on its second
\* call of the request, the first one made for a Digest challenge
C19_Witness ==
    /\ last.op = "pre_send" /\ req.phase = "sent"
    /\ ahs[last.i].can_handle /\ ahs[last.i].scheme = "basic"
    /\ ahs[last.i].basic = Base64("u1:p1") /\ ahs[last.i].attempt = 2
    /\ Carries(req.buf, <<"Basic ", "b64(u1:p1)", "\r\n">>)

----------------------------------------------------------------------------
(* Properties of the challenge parser *)

\* the scheme tokens auth_challenge knows, in lower case
KnownSchemes ==
    {"basic", "digest"} \cup (IF have_gssapi THEN {"gss-negotiate"} ELSE {})

(***************************************************************************)
(* C20: when the challenge header post_send hands to auth_challenge holds  *)
(* a scheme token that is not Basic, Digest or, where compiled in,         *)
(* GSS-Negotiate (in any case of letters), every challenge of the header   *)
(* is discarded, those before the unknown token too: no validator runs,    *)
(* nothing is accepted and post_send returns the fail code of the class.   *)
(***************************************************************************)
C20_UnknownSchemeDiscardsAll ==
    (/\ PostSent /\ last.gated /\ last.hdr /\ last.verify # "rejected"
     /\ \E k \in 1..Len(last.schemes) : last.schemes[k] \notin KnownSchemes)
        => /\ last.tried = <<>> /\ last.calls = <<>>
           /\ last.accepted = NULL
           /\ last.ret = FailCode(ahs[last.i])
           /\ ~ahs[last.i].can_handle

\* without GSSAPI the Negotiate token is unknown: the Basic challenge before it
\* and the Digest challenge after it are both lost
C20_Witness ==
    /\ PostSent /\ ~have_gssapi /\ last.gated /\ last.verify # "rejected"
    /\ last.schemes = <<"basic", "gss-negotiate", "digest">>
    /\ last.tried = <<>> /\ last.accepted = NULL
    /\ last.ret = FailCode(ahs[last.i])

\* the challenges of a header value in the order they appear in it, each
\* with the parameters that follow its scheme token
RECURSIVE HeaderChallenges(_, _)
HeaderChallenges(items, acc) ==
    IF items = <<>> THEN acc
    ELSE IF Head(items).bare
    THEN HeaderChallenges(
           Tail(items),
           Append(acc, [NewChallenge EXCEPT !.scheme = SchemeOf(Head(items).key)]))
    ELSE IF acc = <<>> THEN HeaderChallenges(Tail(items), acc)
    ELSE HeaderChallenges(
           Tail(items),
           [acc EXCEPT ![Len(acc)] = SetParam(@, Head(items))])

\* a challenge its validator accepts when the credentials callback succeeds
Acceptable(c) ==
    \/ c.scheme = "basic" /\ c.realm # NULL
    \/ c.scheme = "digest" /\ ValidDigest(c)

\* the acceptable challenges of a scheme, in the order of the header
Candidates(items, scheme) ==
    SelectSeq(HeaderChallenges(items, <<>>),
              LAMBDA c : c.scheme = scheme /\ Acceptable(c))

(***************************************************************************)
(* C21: the validators of one scheme run over the challenges in the order  *)
(* of the header value and stop at the first acceptance: when the callback *)
(* gives credentials and a Basic or Digest challenge is accepted, it is    *)
(* the first acceptable challenge of its scheme in the header, and it is   *)
(* the one the session holds.                                              *)
(***************************************************************************)
C21_FirstInHeaderWins ==
    (/\ PostSent /\ last.accepted \in {"basic", "digest"}
     /\ \A k \in 1..Len(last.calls) : last.calls[k].ret = 0)
        => /\ Candidates(last.value, last.accepted) # <<>>
           /\ last.chall = Candidates(last.value, last.accepted)[1]
           /\ last.accepted = "basic" =>
                 ahs[last.i].realm = Candidates(last.value, "basic")[1].realm
           /\ last.accepted = "digest" =>
                 ahs[last.i].nonce = Candidates(last.value, "digest")[1].nonce

----------------------------------------------------------------------------
(* Properties of registration and ne_forget_auth *)

\* the auth sessions, each with its set of hooks, registered for a class
SessionsOf(id) == {i \in 1..Len(ahs) : ahs[i].spec.id = id}

(***************************************************************************)
(* C23: whatever ne_set_server_auth and ne_set_proxy_auth calls were made  *)
(* on the HTTP session, calls repeated for one class included, the HTTP    *)
(* session has one auth session, with one set of hooks, for a class        *)
(* registered and none for a class not registered.                         *)
(***************************************************************************)
C23_OneSessionPerClass ==
    \A id \in ClassIds : Cardinality(SessionsOf(id)) <= 1

\* clean_session has cleared what the claim lists
Forgotten(sess) ==
    /\ ~sess.can_handle
    /\ sess.basic = NULL /\ sess.realm = NULL /\ sess.nonce = NULL
    /\ sess.cnonce = NULL /\ sess.opaque = NULL

----------------------------------------------------------------------------
(* Properties of the Digest request header *)

\* the Digest credentials line of a session for a request: the response
\* value resp, the nonce count count
DigestLine(sess, areq, resp, count) ==
    <<ReqHdr(sess), ": ",
      "Digest username=\"", sess.username, "\", ",
      "realm=\"", sess.realm, "\", ",
      "nonce=\"", sess.nonce, "\", ",
      "uri=\"", areq.uri, "\", ",
      "response=\"", resp, "\", ",
      "algorithm=\"", IF sess.alg = "md5_sess" THEN "MD5-sess" ELSE "MD5", "\"">>
    \o (IF sess.opaque # NULL THEN <<", opaque=\"", sess.opaque, "\"">> ELSE <<>>)
    \o (IF sess.qop # "none"
        THEN <<", cnonce=\"", sess.cnonce, "\", ", "nc=", NcText(count), ", ",
               "qop=\"", IF sess.qop = "auth_int" THEN "auth-int" ELSE "auth",
               "\"">>
        ELSE <<>>)
    \o <<"\r\n">>

(***************************************************************************)
(* C30: the line pre_send appends for a session holding Digest credentials *)
(* has username, realm, nonce, uri, response and algorithm (MD5 or         *)
(* MD5-sess) with the values of the session and the URI of the request,    *)
(* has opaque exactly when the session holds one, has cnonce, nc and qop   *)
(* exactly when the qop of the session is not none, and ends with CRLF.    *)
(***************************************************************************)
C30_DigestHeaderFields ==
    [][ (/\ last'.op = "pre_send" /\ ahs[last'.i].can_handle
         /\ Areq(last'.i).present /\ ahs[last'.i].scheme = "digest")
          => /\ Len(Appended) >= 16
             /\ ahs[last'.i].realm # NULL /\ ahs[last'.i].nonce # NULL
             /\ Appended = DigestLine(ahs[last'.i], Areq(last'.i), Appended[16],
                                      ahs'[last'.i].nonce_count) ]_vars

----------------------------------------------------------------------------
(* Properties of the attempt counter *)

\* the step is the create hook of auth session i attaching an auth_request
CreateAttached(i) ==
    /\ last'.op = "create" /\ last'.i = i
    /\ req'.private[ahs[i].spec.id].present

(***************************************************************************)
(* C29: the attempt counter is set to 0 only by the create hook of a       *)
(* request that passes the context filter, and every post_send that calls  *)
(* auth_challenge (the class's status, a challenge header captured)        *)
(* increases it by exactly 1.                                              *)
(***************************************************************************)
C29_AttemptPerPostSend ==
    [][ \A i \in 1..Len(ahs) :
          /\ (ahs'[i].attempt = 0 /\ ahs[i].attempt # 0) => CreateAttached(i)
          /\ (req.phase = "sent" /\ last'.op = "post_send" /\ last'.i = i
               /\ last'.value # <<>>)
                => ahs'[i].attempt = ahs[i].attempt + 1 ]_vars

(***************************************************************************)
(* C29 as amended: the attempt counter is set to 0 by the create hook of   *)
(* a request that passes the context filter and by nothing else, and it is *)
(* increased by exactly 1 by every call of the credentials callback, not   *)
(* by every post_send that parses a challenge: the k-th call made for one  *)
(* request is handed k-1.                                                  *)
(***************************************************************************)
C29_AttemptPerCallback ==
    [][ \A i \in 1..Len(ahs) :
          /\ (ahs'[i].attempt = 0 /\ ahs[i].attempt # 0) => CreateAttached(i)
          /\ CreateAttached(i) => ahs'[i].attempt = 0
          /\ (req.phase = "sent" /\ last'.op = "post_send" /\ last'.i = i)
                => /\ ahs'[i].attempt = ahs[i].attempt + Len(last'.calls)
                   /\ \A k \in 1..Len(last'.calls) :
                         last'.calls[k].attempt = ahs[i].attempt + k - 1
          /\ ~CreateAttached(i) /\ ~(last'.op = "post_send" /\ last'.i = i)
                => ahs'[i].attempt = ahs[i].attempt ]_vars

\* one post_send has called the callback twice, for a Digest and then for a
\* Basic challenge, with attempts 0 and 1
C29_Witness ==
    /\ PostSent /\ last.value # <<>> /\ Len(last.calls) = 2
    /\ last.calls[1].attempt = 0 /\ last.calls[2].attempt = 1
    /\ ahs[last.i].attempt = 2

----------------------------------------------------------------------------
(* The URI parser and the path utilities (ne_uri.h) *)

(***************************************************************************)
(* A string of the URI utilities is the sequence of its characters, each a *)
(* string of one character; an octet that is not printable ASCII is named  *)
(* by its code ("xe9").  Nil is the NULL pointer: a field that is absent,  *)
(* or the result of a call that failed.                                    *)
(***************************************************************************)
Nil == <<"NULL">>

Alpha == {"a", "b", "c", "d", "f", "h", "p", "s", "t", "x", "z",
          "A", "B", "H", "P", "T"}
Digit == {"0", "1", "2", "3", "4", "5", "8"}

\* the characters of the model in the order of their codes
CharOrder ==
    <<" ", "#", "%", "+", "-", ".", "/", "0", "1", "2", "3", "4", "5", "8",
      ":", "?", "@", "A", "B", "H", "P", "T", "[", "]",
      "a", "b", "c", "d", "f", "h", "p", "s", "t", "x", "z", "xe9">>

Ord(c) == CHOOSE k \in 1..Len(CharOrder) : CharOrder[k] = c

\* tolower
LowerChar(c) ==
    CASE c = "A" -> "a" [] c = "B" -> "b" [] c = "H" -> "h"
      [] c = "P" -> "p" [] c = "T" -> "t" [] OTHER -> c

Lower(str) == IF str = Nil THEN Nil ELSE [k \in 1..Len(str) |-> LowerChar(str[k])]

\* the place of the first character of str that is in chars, or Len(str) + 1
FirstIn(str, chars) ==
    IF \E k \in 1..Len(str) : str[k] \in chars
    THEN CHOOSE k \in 1..Len(str) :
            str[k] \in chars /\ \A j \in 1..(k - 1) : str[j] \notin chars
    ELSE Len(str) + 1

From(str, k) == SubSeq(str, k, Len(str))
Upto(str, k) == SubSeq(str, 1, k)

DigitValue(c) ==
    CASE c = "0" -> 0 [] c = "1" -> 1 [] c = "2" -> 2 [] c = "3" -> 3
      [] c = "4" -> 4 [] c = "5" -> 5 [] c = "8" -> 8 [] OTHER -> 0

\* the port a string of decimal digits stands for; the empty string gives 0
RECURSIVE Decimal(_)
Decimal(str) ==
    IF str = <<>> THEN 0
    ELSE 10 * Decimal(Upto(str, Len(str) - 1)) + DigitValue(str[Len(str)])

DigitChar(d) ==
    CASE d = 0 -> "0" [] d = 1 -> "1" [] d = 2 -> "2" [] d = 3 -> "3"
      [] d = 4 -> "4" [] d = 5 -> "5" [] d = 6 -> "6" [] d = 7 -> "7"
      [] d = 8 -> "8" [] OTHER -> "9"

\* "%d" of a port
RECURSIVE DecimalText(_)
DecimalText(n) ==
    IF n < 10 THEN <<DigitChar(n)>>
    ELSE Append(DecimalText(n \div 10), DigitChar(n % 10))

\* ne_uri_defaultport: 80 for http, 443 for https, 0 for any other scheme
ne_uri_defaultport(scheme) ==
    IF Lower(scheme) = <<"h", "t", "t", "p">> THEN 80
    ELSE IF Lower(scheme) = <<"h", "t", "t", "p", "s">> THEN 443
    ELSE 0

\* the result of a parse that fails
ParseFail ==
    [ok |-> FALSE, scheme |-> Nil, userinfo |-> Nil, host |-> Nil, port |-> 0,
     path |-> <<>>, query |-> Nil, fragment |-> Nil]

\* scheme ":" is recognised when the scheme is ALPHA *( ALPHA | DIGIT | + | - | . )
HasUriScheme(str) ==
    LET colon == FirstIn(str, {":"})
    IN /\ colon <= Len(str) /\ colon > 1
       /\ str[1] \in Alpha
       /\ \A k \in 2..(colon - 1) : str[k] \in Alpha \cup Digit \cup {"+", "-", "."}

\* the authority: what follows "//" up to the first of / ? # or the end
AuthorityOf(rest) == Upto(From(rest, 3), FirstIn(From(rest, 3), {"/", "?", "#"}) - 1)
AfterAuthority(rest) == From(From(rest, 3), FirstIn(From(rest, 3), {"/", "?", "#"}))

\* the authority without its userinfo@ prefix
HostPort(auth) ==
    IF FirstIn(auth, {"@"}) <= Len(auth)
    THEN From(auth, FirstIn(auth, {"@"}) + 1) ELSE auth

\* the place of the last character of the host in host[:port]
HostEnd(hp) ==
    IF hp # <<>> /\ hp[1] = "[" THEN FirstIn(hp, {"]"})
    ELSE FirstIn(hp, {":"}) - 1

\* path, query and fragment of what follows the authority
PathOf(rest) == Upto(rest, FirstIn(rest, {"?", "#"}) - 1)
QueryOf(rest) ==
    LET tail == From(rest, FirstIn(rest, {"?", "#"}))
    IN IF tail # <<>> /\ tail[1] = "?"
       THEN SubSeq(tail, 2, FirstIn(tail, {"#"}) - 1) ELSE Nil
FragmentOf(rest) ==
    IF FirstIn(rest, {"#"}) <= Len(rest)
    THEN From(rest, FirstIn(rest, {"#"}) + 1) ELSE Nil

\* a space or a bracket where none may be
BadChars(str) == str # Nil /\ \E k \in 1..Len(str) : str[k] \in {" ", "[", "]"}

\* a faulty variant: the path of a URI with an authority is left empty
ParseHier_EmptyPath(scheme, has_auth, auth, rest) ==
    IF has_auth /\ HostPort(auth) # <<>> /\ HostPort(auth)[1] = "["
       /\ HostEnd(HostPort(auth)) > Len(HostPort(auth))
    THEN ParseFail
    ELSE IF BadChars(PathOf(rest)) \/ BadChars(QueryOf(rest))
            \/ BadChars(FragmentOf(rest))
    THEN ParseFail
    ELSE [ok |-> TRUE,
          scheme |-> scheme,
          userinfo |-> IF has_auth /\ FirstIn(auth, {"@"}) <= Len(auth)
                       THEN Upto(auth, FirstIn(auth, {"@"}) - 1) ELSE Nil,
          host |-> IF has_auth
                   THEN Upto(HostPort(auth), HostEnd(HostPort(auth))) ELSE Nil,
          port |-> IF has_auth
                   THEN Decimal(From(HostPort(auth), HostEnd(HostPort(auth)) + 2))
                   ELSE 0,
          path |-> PathOf(rest),
          query |-> QueryOf(rest),
          fragment |-> FragmentOf(rest)]

\* the parse of what follows the scheme: auth the authority, if there is
\* one, and rest what follows it
ParseHier(scheme, has_auth, auth, rest) ==
    IF has_auth /\ HostPort(auth) # <<>> /\ HostPort(auth)[1] = "["
       /\ HostEnd(HostPort(auth)) > Len(HostPort(auth))
    THEN ParseFail
    ELSE IF BadChars(PathOf(rest)) \/ BadChars(QueryOf(rest))
            \/ BadChars(FragmentOf(rest))
    THEN ParseFail
    ELSE [ok |-> TRUE,
          scheme |-> scheme,
          userinfo |-> IF has_auth /\ FirstIn(auth, {"@"}) <= Len(auth)
                       THEN Upto(auth, FirstIn(auth, {"@"}) - 1) ELSE Nil,
          host |-> IF has_auth
                   THEN Upto(HostPort(auth), HostEnd(HostPort(auth))) ELSE Nil,
          port |-> IF has_auth
                   THEN Decimal(From(HostPort(auth), HostEnd(HostPort(auth)) + 2))
                   ELSE 0,
          path |-> IF has_auth /\ PathOf(rest) = <<>> THEN <<"/">> ELSE PathOf(rest),
          query |-> QueryOf(rest),
          fragment |-> FragmentOf(rest)]

\* the parse of a reference, rest what follows its scheme (if any)
ParseRest(scheme, rest) ==
    IF Len(rest) >= 2 /\ rest[1] = "/" /\ rest[2] = "/"
    THEN ParseHier(scheme, TRUE, AuthorityOf(rest), AfterAuthority(rest))
    ELSE ParseHier(scheme, FALSE, <<>>, rest)

\* ne_uri_parse(str, &parsed): the fields, ok = FALSE when the parse fails
uri_parse(str) ==
    IF str = <<>> THEN ParseFail
    ELSE IF HasUriScheme(str)
    THEN ParseRest(Upto(str, FirstIn(str, {":"}) - 1),
                   From(str, FirstIn(str, {":"}) + 1))
    ELSE ParseRest(Nil, str)

\* a faulty variant: the port is written whenever it is set
uri_unparse_AlwaysPort(uri) ==
    (IF uri.scheme # Nil THEN uri.scheme \o <<":">> ELSE <<>>)
    \o (IF uri.host # Nil
        THEN <<"/", "/">>
             \o (IF uri.userinfo # Nil THEN uri.userinfo \o <<"@">> ELSE <<>>)
             \o uri.host
             \o (IF uri.port > 0 THEN <<":">> \o DecimalText(uri.port) ELSE <<>>)
        ELSE <<>>)
    \o uri.path
    \o (IF uri.query # Nil THEN <<"?">> \o uri.query ELSE <<>>)
    \o (IF uri.fragment # Nil THEN <<"#">> \o uri.fragment ELSE <<>>)

\* ne_uri_unparse: scheme "://" userinfo "@" host [":" port] path ["?" query]
\* ["#" fragment], a field that is absent left out with its delimiter, and the
\* port left out when it is 0 or the default port of the scheme
uri_unparse(uri) ==
    (IF uri.scheme # Nil THEN uri.scheme \o <<":">> ELSE <<>>)
    \o (IF uri.host # Nil
        THEN <<"/", "/">>
             \o (IF uri.userinfo # Nil THEN uri.userinfo \o <<"@">> ELSE <<>>)
             \o uri.host
             \o (IF uri.port > 0
                   /\ (uri.scheme = Nil \/ ne_uri_defaultport(uri.scheme) # uri.port)
                 THEN <<":">> \o DecimalText(uri.port) ELSE <<>>)
        ELSE <<>>)
    \o uri.path
    \o (IF uri.query # Nil THEN <<"?">> \o uri.query ELSE <<>>)
    \o (IF uri.fragment # Nil THEN <<"#">> \o uri.fragment ELSE <<>>)

\* strcmp of two strings, as -1, 0 or 1; a NULL string comes before any other
RECURSIVE StrCmp(_, _)
StrCmp(a, b) ==
    IF a = b THEN 0
    ELSE IF a = Nil THEN -1
    ELSE IF b = Nil THEN 1
    ELSE IF a = <<>> THEN -1
    ELSE IF b = <<>> THEN 1
    ELSE IF Ord(a[1]) < Ord(b[1]) THEN -1
    ELSE IF Ord(a[1]) > Ord(b[1]) THEN 1
    ELSE StrCmp(Tail(a), Tail(b))

\* the port compared: 0 stands for the default port of the scheme
CmpPort(uri) ==
    IF uri.port = 0 THEN ne_uri_defaultport(uri.scheme) ELSE uri.port

\* the path compared: the empty path stands for "/"
CmpPath(uri) == IF uri.path = <<>> THEN <<"/">> ELSE uri.path

\* the first of the field comparisons that is not 0, or 0
RECURSIVE FirstDifference(_)
FirstDifference(cmps) ==
    IF cmps = <<>> THEN 0
    ELSE IF Head(cmps) # 0 THEN Head(cmps)
    ELSE FirstDifference(Tail(cmps))

\* a faulty variant: schemes and hosts are compared as they are written
uri_cmp_CaseSensitive(a, b) ==
    FirstDifference(<<StrCmp(a.scheme, b.scheme),
                      StrCmp(a.host, b.host),
                      IF CmpPort(a) < CmpPort(b) THEN -1
                      ELSE IF CmpPort(a) > CmpPort(b) THEN 1 ELSE 0,
                      StrCmp(CmpPath(a), CmpPath(b)),
                      StrCmp(a.userinfo, b.userinfo),
                      StrCmp(a.query, b.query),
                      StrCmp(a.fragment, b.fragment)>>)

\* ne_uri_cmp: ordered equality on scheme and host without regard to case,
\* port, path, userinfo, query and fragment
uri_cmp(a, b) ==
    FirstDifference(<<StrCmp(Lower(a.scheme), Lower(b.scheme)),
                      StrCmp(Lower(a.host), Lower(b.host)),
                      IF CmpPort(a) < CmpPort(b) THEN -1
                      ELSE IF CmpPort(a) > CmpPort(b) THEN 1 ELSE 0,
                      StrCmp(CmpPath(a), CmpPath(b)),
                      StrCmp(a.userinfo, b.userinfo),
                      StrCmp(a.query, b.query),
                      StrCmp(a.fragment, b.fragment)>>)

\* the places of a path that hold a slash and are not its last place
InnerSlashes(path) == {k \in 1..(Len(path) - 1) : path[k] = "/"}

\* a faulty variant: a trailing slash is taken for the last slash
path_parent_TrailingSlash(path) ==
    IF \E k \in 1..Len(path) : path[k] = "/"
    THEN Upto(path, CHOOSE k \in 1..Len(path) :
                       path[k] = "/" /\ \A j \in (k + 1)..Len(path) : path[j] # "/")
    ELSE Nil

\* ne_path_parent: the prefix up to and including the last slash that is not
\* at the end, or NULL when there is none
path_parent(path) ==
    IF InnerSlashes(path) = {} THEN Nil
    ELSE Upto(path, CHOOSE k \in InnerSlashes(path) :
                       \A j \in InnerSlashes(path) : j <= k)

\* the octets ne_path_escape leaves as they are
Unreserved == Alpha \cup Digit \cup {"-", ".", "/"}

HexChars == Digit \cup {"9", "a", "b", "c", "d", "e", "f", "A", "B"}

\* the two hex digits of the code of an octet the model escapes
EscapeCode(c) ==
    CASE c = " " -> <<"2", "0">>
      [] c = "%" -> <<"2", "5">>
      [] c = "#" -> <<"2", "3">>
      [] c = "?" -> <<"3", "f">>
      [] c = "xe9" -> <<"e", "9">>
      [] OTHER -> <<"0", "0">>

\* the octet two hex digits are the code of
OctetOf(h1, h2) ==
    IF \E c \in {" ", "%", "#", "?", "xe9"} : EscapeCode(c) = <<h1, h2>>
    THEN CHOOSE c \in {" ", "%", "#", "?", "xe9"} : EscapeCode(c) = <<h1, h2>>
    ELSE "x" \o h1 \o h2

\* a faulty variant: the percent sign is left as it is
RECURSIVE path_escape_KeepsPercent(_)
path_escape_KeepsPercent(str) ==
    IF str = <<>> THEN <<>>
    ELSE (IF Head(str) \in Unreserved \cup {"%"} THEN <<Head(str)>>
          ELSE <<"%">> \o EscapeCode(Head(str)))
         \o path_escape_KeepsPercent(Tail(str))

\* ne_path_escape: every octet outside the unreserved set becomes %XX
RECURSIVE path_escape(_)
path_escape(str) ==
    IF str = <<>> THEN <<>>
    ELSE (IF Head(str) \in Unreserved THEN <<Head(str)>>
          ELSE <<"%">> \o EscapeCode(Head(str)))
         \o path_escape(Tail(str))

\* an octet put before the rest of an unescaped string; NULL stays NULL
PrependOctet(c, rest) == IF rest = Nil THEN Nil ELSE <<c>> \o rest

\* ne_path_unescape: every %XX becomes its octet; NULL on a malformed escape
RECURSIVE path_unescape(_)
path_unescape(str) ==
    IF str = <<>> THEN <<>>
    ELSE IF Head(str) # "%"
    THEN PrependOctet(Head(str), path_unescape(Tail(str)))
    ELSE IF Len(str) < 3 \/ str[2] \notin HexChars \/ str[3] \notin HexChars
    THEN Nil
    ELSE PrependOctet(OctetOf(str[2], str[3]), path_unescape(From(str, 4)))

(***************************************************************************)
(* The URI utilities are driven the way test/uri-tests.c drives them: one  *)
(* call, or one chain of calls, on an input of a small set.  ucall holds   *)
(* the last call, its input and its result.                                *)
(***************************************************************************)

\* the characters of a string of the model, one string per character
Chars(text) ==
    CASE text = "http" -> <<"h", "t", "t", "p">>
      [] text = "HtTp" -> <<"H", "t", "T", "p">>
      [] text = "https" -> <<"h", "t", "t", "p", "s">>
      [] text = "ftp" -> <<"f", "t", "p">>
      [] text = "a" -> <<"a">>
      [] text = "A" -> <<"A">>
      [] text = "b" -> <<"b">>
      [] text = "u:p@a" -> <<"u", ":", "p", "@", "a">>
      [] text = "[::1]" -> <<"[", ":", ":", "1", "]">>
      [] text = "[::1" -> <<"[", ":", ":", "1">>
      [] text = "a:" -> <<"a", ":">>
      [] text = "a:80" -> <<"a", ":", "8", "0">>
      [] text = "a:443" -> <<"a", ":", "4", "4", "3">>
      [] text = "a:8080" -> <<"a", ":", "8", "0", "8", "0">>
      [] text = "[::1]:8080" -> <<"[", ":", ":", "1", "]", ":", "8", "0", "8", "0">>
      [] text = "" -> <<>>
      [] text = "/" -> <<"/">>
      [] text = "/b" -> <<"/", "b">>
      [] text = "/b c" -> <<"/", "b", " ", "c">>
      [] text = "/[b]" -> <<"/", "[", "b", "]">>
      [] text = "b/c" -> <<"b", "/", "c">>
      [] text = "c" -> <<"c">>
      [] text = "c?d" -> <<"c", "?", "d">>
      [] text = "d" -> <<"d">>
      [] text = "d?c" -> <<"d", "?", "c">>
      [] text = "c d" -> <<"c", " ", "d">>
      [] text = "[d]" -> <<"[", "d", "]">>

UriSchemes == {"http", "HtTp", "https", "ftp"}
UriAuthorities == {"a", "A", "u:p@a", "[::1]", "[::1", "a:", "a:80", "a:443",
                   "a:8080", "[::1]:8080"}
UriPaths == {"", "/", "/b", "/b c", "/[b]", "b/c"}
UriQueries == {"", "c", "c?d", "c d"}
UriFragments == {"d", "d?c", "[d]"}

\* the parts a URI string is written from: an optional scheme, an optional
\* authority, a path, an optional query and an optional fragment; after an
\* authority the path is empty or begins with a slash
UriParts ==
    {p \in [scheme : UriSchemes \cup {NULL}, authority : UriAuthorities \cup {NULL},
            path : UriPaths, query : UriQueries \cup {NULL},
            fragment : UriFragments \cup {NULL}] :
        p.authority # NULL => p.path \in {"", "/", "/b", "/b c", "/[b]"}}

\* the URI string written from its parts
UriText(p) ==
    (IF p.scheme = NULL THEN <<>> ELSE Chars(p.scheme) \o <<":">>)
    \o (IF p.authority = NULL THEN <<>> ELSE <<"/", "/">> \o Chars(p.authority))
    \o Chars(p.path)
    \o (IF p.query = NULL THEN <<>> ELSE <<"?">> \o Chars(p.query))
    \o (IF p.fragment = NULL THEN <<>> ELSE <<"#">> \o Chars(p.fragment))

\* the URIs compared, as the comparisons of test/uri-tests.c build them
CmpUris ==
    {[ok |-> TRUE, scheme |-> Chars(s), userinfo |-> Nil, host |-> Chars(h),
      port |-> n, path |-> Chars(p), query |-> q, fragment |-> Nil] :
        s \in {"http", "HtTp", "https"}, h \in {"a", "A", "b"},
        n \in {0, 80, 433}, p \in {"", "/", "/b"}, q \in {Nil, <<"c">>}}

\* the longest path handed to the path functions
MaxPathLen == 4

\* the octets of the paths handed to ne_path_parent and ne_path_escape
PathOctets == {"/", "a", " ", "%", "xe9"}

\* the characters of the strings handed to ne_path_unescape
EscapedChars == {"/", "f", "%", "z", "2", "0"}

\* the paths test/uri-tests.c takes the parent of
ParentPaths ==
    {<<"/", "a", "/", "b", "/", "c">>, <<"/", "a", "/", "b", "/", "c", "/">>,
     <<"/", "f", "o", "o">>, <<"n", "o", "r", "m", "a", "n">>, <<"/">>, <<>>}

\* the malformed string test/uri-tests.c hands to ne_path_unescape
EscapedTests == {<<"/", "f", "o", "o", "%", "z", "z", "b", "a", "r">>}

\* the strings of at most n characters over an alphabet
StringsOver(chars, n) == UNION {[1..k -> chars] : k \in 0..n}

\* ne_uri_parse(str, &parsed)
ne_uri_parse ==
    /\ ucall.op = "none"
    /\ \E p \in UriParts :
          ucall' = [op |-> "parse", parts |-> p, text |-> UriText(p),
                    uri |-> uri_parse(UriText(p)), defaulted |-> FALSE]
    /\ UNCHANGED <<uri_scheme, have_gssapi, ahs, req, error, last, nsent, wire>>

\* if (parsed.port == 0) parsed.port = ne_uri_defaultport(parsed.scheme);
set_default_port ==
    /\ ucall.op = "parse"
    /\ ucall.uri.ok
    /\ ucall.uri.port = 0
    /\ ucall' = [ucall EXCEPT !.op = "setport", !.defaulted = TRUE,
                              !.uri.port = ne_uri_defaultport(ucall.uri.scheme)]
    /\ UNCHANGED <<uri_scheme, have_gssapi, ahs, req, error, last, nsent, wire>>

\* ne_uri_unparse(&parsed)
ne_uri_unparse ==
    /\ ucall.op \in {"parse", "setport"}
    /\ ucall.uri.ok
    /\ ucall' = [op |-> "unparse", text |-> ucall.text, uri |-> ucall.uri,
                 defaulted |-> ucall.defaulted, out |-> uri_unparse(ucall.uri)]
    /\ UNCHANGED <<uri_scheme, have_gssapi, ahs, req, error, last, nsent, wire>>

\* ne_uri_cmp(&a, &b)
ne_uri_cmp ==
    /\ ucall.op = "none"
    /\ \E a \in CmpUris, b \in CmpUris :
          ucall' = [op |-> "cmp", a |-> a, b |-> b,
                    ret |-> uri_cmp(a, b), back |-> uri_cmp(b, a)]
    /\ UNCHANGED <<uri_scheme, have_gssapi, ahs, req, error, last, nsent, wire>>

\* ne_path_parent(path)
ne_path_parent ==
    /\ ucall.op = "none"
    /\ \E path \in StringsOver(PathOctets, MaxPathLen) \cup ParentPaths :
          ucall' = [op |-> "parent", path |-> path, ret |-> path_parent(path)]
    /\ UNCHANGED <<uri_scheme, have_gssapi, ahs, req, error, last, nsent, wire>>

\* ne_path_escape(path)
ne_path_escape ==
    /\ ucall.op = "none"
    /\ \E path \in StringsOver(PathOctets, MaxPathLen) :
          ucall' = [op |-> "escape", path |-> path, ret |-> path_escape(path)]
    /\ UNCHANGED <<uri_scheme, have_gssapi, ahs, req, error, last, nsent, wire>>

\* ne_path_unescape(str), on the result of ne_path_escape or on a string
\* chosen freely
ne_path_unescape ==
    /\ \/ /\ ucall.op = "escape"
          /\ ucall' = [op |-> "unescape", path |-> ucall.path,
                       escaped |-> ucall.ret, roundtrip |-> TRUE,
                       ret |-> path_unescape(ucall.ret)]
       \/ /\ ucall.op = "none"
          /\ \E str \in StringsOver(EscapedChars, MaxPathLen) \cup EscapedTests :
                ucall' = [op |-> "unescape", path |-> Nil, escaped |-> str,
                          roundtrip |-> FALSE, ret |-> path_unescape(str)]
    /\ UNCHANGED <<uri_scheme, have_gssapi, ahs, req, error, last, nsent, wire>>

InitUri == Init

NextUri ==
    \/ ne_uri_parse
    \/ set_default_port
    \/ ne_uri_unparse
    \/ ne_uri_cmp
    \/ ne_path_parent
    \/ ne_path_escape
    \/ ne_path_unescape

SpecUri == InitUri /\ [][NextUri]_vars

\* the port a URI stands for: the port written, or the default of the scheme
CanonicalPort(uri) ==
    IF uri.port # 0 THEN uri.port
    ELSE IF Lower(uri.scheme) = <<"h", "t", "t", "p">> THEN 80
    ELSE IF Lower(uri.scheme) = <<"h", "t", "t", "p", "s">> THEN 443
    ELSE 0

\* two parsed URIs are the same but for a default port left out and an empty
\* path written "/"
SameUri(a, b) ==
    /\ a.scheme = b.scheme
    /\ a.userinfo = b.userinfo
    /\ a.host = b.host
    /\ CanonicalPort(a) = CanonicalPort(b)
    /\ (IF a.path = <<>> THEN <<"/">> ELSE a.path)
         = (IF b.path = <<>> THEN <<"/">> ELSE b.path)
    /\ a.query = b.query
    /\ a.fragment = b.fragment

\* C24: the string ne_uri_unparse gives for a parsed URI parses again, to the
\* same URI but for the default port and the empty path; a port equal to the
\* default port of the scheme is not written; and a string that unparses to
\* itself still does after its unspecified port was set to the default
C24_ParseUnparseRoundTrip ==
    ucall.op = "unparse" =>
        /\ uri_parse(ucall.out).ok
        /\ SameUri(uri_parse(ucall.out), ucall.uri)
        /\ (ucall.uri.port # 0 /\ ucall.uri.port = CanonicalPort([ucall.uri EXCEPT !.port = 0]))
              => uri_parse(ucall.out).port = 0
        /\ (ucall.defaulted /\ uri_unparse(uri_parse(ucall.text)) = ucall.text)
              => ucall.out = ucall.text

\* "http://a/b" was parsed, its port set to 80, and unparsed to "http://a/b"
C24_Witness ==
    /\ ucall.op = "unparse"
    /\ ucall.defaulted
    /\ ucall.uri.port = 80
    /\ ucall.text = <<"h", "t", "t", "p", ":", "/", "/", "a", "/", "b">>
    /\ ucall.out = ucall.text

\* two URIs are the same but for the letter case of scheme and host and for
\* an empty path written "/"
SameButCaseAndEmptyPath(a, b) ==
    /\ Lower(a.scheme) = Lower(b.scheme)
    /\ Lower(a.host) = Lower(b.host)
    /\ a.port = b.port
    /\ (IF a.path = <<>> THEN <<"/">> ELSE a.path)
         = (IF b.path = <<>> THEN <<"/">> ELSE b.path)
    /\ a.userinfo = b.userinfo
    /\ a.query = b.query
    /\ a.fragment = b.fragment

\* two URIs differ in path, in scheme, in host, or in the port they name
DifferButPort(a, b) ==
    \/ Lower(a.scheme) # Lower(b.scheme)
    \/ Lower(a.host) # Lower(b.host)
    \/ (IF a.path = <<>> THEN <<"/">> ELSE a.path)
         # (IF b.path = <<>> THEN <<"/">> ELSE b.path)

HasBadChar(text) == \E k \in 1..Len(Chars(text)) : Chars(text)[k] \in {" ", "[", "]"}

\* the parts hold a bad character in path, query or fragment
BadParts(p) ==
    \/ HasBadChar(p.path)
    \/ p.query # NULL /\ HasBadChar(p.query)
    \/ p.fragment # NULL /\ HasBadChar(p.fragment)

\* C26: ne_uri_parse fails on the empty string, on an unterminated bracketed
\* host and on a space or square bracket in path, query or fragment; it
\* succeeds on every other absolute URI, network-path reference and relative
\* reference, with path "/" for an empty path after an authority and port 0
\* for an absent or empty port
C26_ParseFailures ==
    ucall.op = "parse" =>
        /\ ucall.text = <<>> => ~ucall.uri.ok
        /\ ucall.parts.authority = "[::1" => ~ucall.uri.ok
        /\ BadParts(ucall.parts) => ~ucall.uri.ok
        /\ (ucall.text # <<>> /\ ucall.parts.authority # "[::1"
              /\ ~BadParts(ucall.parts)) => ucall.uri.ok
        /\ (ucall.uri.ok /\ ucall.parts.authority # NULL /\ ucall.parts.path = "")
              => ucall.uri.path = <<"/">>
        /\ (ucall.uri.ok
              /\ ucall.parts.authority \in {NULL, "a", "A", "u:p@a", "[::1]", "a:"})
              => ucall.uri.port = 0

\* "https://a:" was parsed to path "/" and port 0
C26_Witness ==
    /\ ucall.op = "parse"
    /\ ucall.text = <<"h", "t", "t", "p", "s", ":", "/", "/", "a", ":">>
    /\ ucall.uri.ok
    /\ ucall.uri.path = <<"/">>
    /\ ucall.uri.port = 0

\* C27: ne_path_parent gives the prefix of the path up to and including the
\* last slash that is not the last character of the path, and NULL when the
\* path has no such slash
C27_PathParent ==
    ucall.op = "parent" =>
        /\ IF \E k \in 1..(Len(ucall.path) - 1) : ucall.path[k] = "/"
           THEN /\ ucall.ret # Nil
                /\ Len(ucall.ret) < Len(ucall.path)
                /\ ucall.ret = SubSeq(ucall.path, 1, Len(ucall.ret))
                /\ ucall.ret[Len(ucall.ret)] = "/"
                /\ \A j \in (Len(ucall.ret) + 1)..(Len(ucall.path) - 1) :
                      ucall.path[j] # "/"
           ELSE ucall.ret = Nil
        /\ ucall.path \in {<<"/", "a", "/", "b", "/", "c">>,
                           <<"/", "a", "/", "b", "/", "c", "/">>}
              => ucall.ret = <<"/", "a", "/", "b", "/">>
        /\ ucall.path = <<"/", "f", "o", "o">> => ucall.ret = <<"/">>
        /\ ucall.path \in {<<"/">>, <<>>, <<"n", "o", "r", "m", "a", "n">>}
              => ucall.ret = Nil

\* the parent of "/a/b/c/" was found to be "/a/b/"
C27_Witness ==
    /\ ucall.op = "parent"
    /\ ucall.path = <<"/", "a", "/", "b", "/", "c", "/">>
    /\ ucall.ret = <<"/", "a", "/", "b", "/">>

\* the hex digits of an escape, in either letter case
EscapeDigits ==
    {HexDigits[k] : k \in 1..Len(HexDigits)} \cup {"A", "B", "C", "D", "E", "F"}

\* a percent sign of the string is not followed by two hex digits
Malformed(str) ==
    \E k \in 1..Len(str) :
        /\ str[k] = "%"
        /\ \/ k + 2 > Len(str)
           \/ str[k + 1] \notin EscapeDigits
           \/ str[k + 2] \notin EscapeDigits

\* C28: ne_path_unescape gives back the string ne_path_escape was given;
\* ne_path_escape leaves a string of letters, digits and slashes as it is;
\* ne_path_unescape fails on a malformed escape
C28_EscapeRoundTrip ==
    /\ (ucall.op = "unescape" /\ ucall.roundtrip) => ucall.ret = ucall.path
    /\ (ucall.op = "escape"
          /\ \A k \in 1..Len(ucall.path) : ucall.path[k] \in {"/", "a"})
          => ucall.ret = ucall.path
    /\ (ucall.op = "unescape" /\ Malformed(ucall.escaped)) => ucall.ret = Nil
    /\ (ucall.op = "unescape" /\ ~Malformed(ucall.escaped)) => ucall.ret # Nil

\* "/a<e9>/" was escaped to "/a%e9/" and unescaped to itself
C28_Witness ==
    /\ ucall.op = "unescape"
    /\ ucall.roundtrip
    /\ ucall.path = <<"/", "a", "xe9", "/">>
    /\ ucall.escaped = <<"/", "a", "%", "e", "9", "/">>
    /\ ucall.ret = ucall.path

----------------------------------------------------------------------------
(* Properties of the stored request digest *)

\* the bytes of the request digest before the qop value and H(A2)
RequestPrefix(sess) ==
    sess.h_a1 \o ":" \o sess.nonce \o ":"
    \o (IF sess.qop # "none"
        THEN NcText(sess.nonce_count) \o ":" \o sess.cnonce \o ":" ELSE "")

\* the qop value and its colon, digested when the session has a qop
QopPart(sess) ==
    IF sess.qop = "none" THEN ""
    ELSE (IF sess.qop = "auth_int" THEN "auth-int" ELSE "auth") \o ":"

\* H(A2) of the request: method, URI and for auth-int the digest of the body
RequestA2(sess, r) ==
    MD5Hex(r.method \o ":" \o r.uri
           \o (IF sess.qop = "auth_int" THEN ":" \o MD5Hex(r.body) ELSE ""))

(***************************************************************************)
(* C31: after a pre_send with Digest credentials stored_rdig is the prefix  *)
(* H(A1) ":" nonce ":" (then nc ":" cnonce ":" under a qop) of the request  *)
(* digest sent, which goes on with the qop value and H(A2); and when        *)
(* verify_response computes the response digest it resumes from that       *)
(* prefix and digests the qop value and a colon (under a qop), then H(A2')  *)
(* of the empty method and the URI.                                         *)
(***************************************************************************)
C31_DigestSnapshot ==
    [][ /\ (/\ last'.op = "pre_send" /\ ahs[last'.i].can_handle
            /\ Areq(last'.i).present /\ ahs[last'.i].scheme = "digest")
             => /\ ahs'[last'.i].stored_rdig = RequestPrefix(ahs'[last'.i])
                /\ Len(Appended) >= 16 =>
                      Appended[16] = MD5Hex(ahs'[last'.i].stored_rdig
                                            \o QopPart(ahs[last'.i])
                                            \o RequestA2(ahs[last'.i], req))
        /\ (/\ req.phase = "sent" /\ last'.op = "post_send"
            /\ ahs'[last'.i].stored_rdig # ahs[last'.i].stored_rdig)
             => /\ ahs[last'.i].stored_rdig = RequestPrefix(ahs[last'.i])
                /\ ahs'[last'.i].stored_rdig
                     = Finished(ahs[last'.i].stored_rdig
                                \o QopPart(ahs[last'.i])
                                \o ResponseA2(Areq(last'.i), ahs[last'.i].qop)) ]_vars

----------------------------------------------------------------------------
(* Properties of the info header of a request sent without credentials *)

(***************************************************************************)
(* C32: when pre_send supplied no credentials for the request, an info     *)
(* header captured on its response is ignored: post_send returns what it   *)
(* returns, and leaves the session as it leaves it, when that header is    *)
(* absent.                                                                 *)
(***************************************************************************)
C32_InfoIgnoredWithoutCredentials ==
    (PostSent /\ last.info /\ ~Areq(last.i).will_handle)
       => /\ last.ret = last.absent.ret
          /\ ahs[last.i] = last.absent.sess
          /\ last.verify # "rejected"
          /\ last.installed = NULL

\* a response to a request sent without credentials carried an info header
\* and a challenge, and the challenge was accepted
C32_Witness ==
    /\ PostSent /\ last.info /\ ~Areq(last.i).will_handle
    /\ last.ret = NE_RETRY
    /\ last.accepted = "digest"

----------------------------------------------------------------------------
(* Properties of the password buffer *)

(***************************************************************************)
(* C33: a Basic or Digest validator that has called the credentials        *)
(* callback returns with its local password buffer all zero, whether it    *)
(* accepts the challenge or not.                                           *)
(***************************************************************************)
C33_PasswordZeroed ==
    PostSent =>
       \A k \in 1..Len(last.tried) :
          (last.tried[k].scheme \in {"basic", "digest"} /\ last.tried[k].calls > 0)
             => last.tried[k].password = PW_ZERO

----------------------------------------------------------------------------
(* tokenize *)

(***************************************************************************)
(* tokenize(&hdr, &key, &value, ischall) on the characters of a header      *)
(* value.  The result holds the return value, what the call left in *key   *)
(* and *value (Nil for NULL), whether it assigned *value at all, and the   *)
(* rest of the string *hdr is moved to.  v0 is what *value held before the *)
(* call: the caller's variable, which a call that does not assign it       *)
(* leaves as it was.                                                       *)
(***************************************************************************)

\* the caller's char *key, *val before the first call: not initialised
Uninit == <<"UNINIT">>

\* strchr(" \r\n\t", c) != NULL
TokenSpace == {" ", "\t", "\r", "\n"}

\* the end of the string was reached: return 0
TokenizeEnd(hdr, st, ks, ke, vs, v0, ischall) ==
    [ret |-> 0,
     key |-> IF ks = 0 THEN Nil
             ELSE SubSeq(hdr, ks, IF st = "BEFORE_EQ" THEN Len(hdr) ELSE ke),
     value |-> IF st # "BEFORE_EQ" THEN SubSeq(hdr, vs, Len(hdr))
               ELSE IF ischall /\ ks # 0 THEN Nil
               ELSE v0,
     value_set |-> st # "BEFORE_EQ" \/ (ischall /\ ks # 0),
     rest |-> <<>>]

\* the do-while loop from the character at pos on: st is the state, ks the
\* place *key points to (0 for NULL), ke the place before the '\0' written
\* at the '=', vs the place *value points to
RECURSIVE TokenizeFrom(_, _, _, _, _, _, _, _)
TokenizeFrom(hdr, pos, st, ks, ke, vs, v0, ischall) ==
    IF st = "BEFORE_EQ" /\ hdr[pos] = "=" /\ ks = 0
    THEN [ret |-> -1, key |-> Nil, value |-> v0, value_set |-> FALSE,
          rest |-> hdr]
    ELSE IF st = "BEFORE_EQ" /\ hdr[pos] # "=" /\ hdr[pos] = " " /\ ischall /\ ks # 0
    THEN [ret |-> 0, key |-> SubSeq(hdr, ks, pos - 1), value |-> Nil,
          value_set |-> TRUE, rest |-> SubSeq(hdr, pos + 1, Len(hdr))]
    ELSE IF st = "AFTER_EQ" /\ hdr[pos] = ","
    THEN [ret |-> 0, key |-> SubSeq(hdr, ks, ke),
          value |-> SubSeq(hdr, vs, pos - 1), value_set |-> TRUE,
          rest |-> SubSeq(hdr, pos + 1, Len(hdr))]
    ELSE IF pos = Len(hdr)
    THEN TokenizeEnd(hdr,
                     IF st = "BEFORE_EQ" /\ hdr[pos] = "=" THEN "AFTER_EQ"
                     ELSE IF st = "AFTER_EQ" /\ hdr[pos] = "\"" THEN "AFTER_EQ_QUOTED"
                     ELSE IF st = "AFTER_EQ_QUOTED" /\ hdr[pos] = "\"" THEN "AFTER_EQ"
                     ELSE st,
                     IF st = "BEFORE_EQ" /\ ks = 0 /\ hdr[pos] \notin TokenSpace
                     THEN pos ELSE ks,
                     IF st = "BEFORE_EQ" /\ hdr[pos] = "=" THEN pos - 1 ELSE ke,
                     IF st = "BEFORE_EQ" /\ hdr[pos] = "=" THEN pos + 1 ELSE vs,
                     v0, ischall)
    ELSE TokenizeFrom(hdr, pos + 1,
                      IF st = "BEFORE_EQ" /\ hdr[pos] = "=" THEN "AFTER_EQ"
                      ELSE IF st = "AFTER_EQ" /\ hdr[pos] = "\"" THEN "AFTER_EQ_QUOTED"
                      ELSE IF st = "AFTER_EQ_QUOTED" /\ hdr[pos] = "\"" THEN "AFTER_EQ"
                      ELSE st,
                      IF st = "BEFORE_EQ" /\ ks = 0 /\ hdr[pos] \notin TokenSpace
                      THEN pos ELSE ks,
                      IF st = "BEFORE_EQ" /\ hdr[pos] = "=" THEN pos - 1 ELSE ke,
                      IF st = "BEFORE_EQ" /\ hdr[pos] = "=" THEN pos + 1 ELSE vs,
                      v0, ischall)

\* k0 and v0 are what *key and *value held before the call
tokenize(hdr, k0, v0, ischall) ==
    IF hdr = <<>>
    THEN [ret |-> 1, key |-> k0, value |-> v0, value_set |-> FALSE, rest |-> hdr]
    ELSE TokenizeFrom(hdr, 1, "BEFORE_EQ", 0, 0, 0, v0, ischall)

\* the longest header value handed to tokenize
MaxHdrLen == 4

\* the characters of the header values handed to tokenize
HeaderChars == {"a", "=", ",", " ", "\""}

\* the header values handed to tokenize
HeaderTexts == UNION {[1..k -> HeaderChars] : k \in 0..MaxHdrLen}

\* the first call of a parsing loop, pnt at the start of the header value:
\* while (tokenize(&pnt, &key, &val, ischall) == 0), with ischall 1 in
\* auth_challenge and 0 in verify_response
tokenize_first ==
    /\ ucall.op = "none"
    /\ \E hdr \in HeaderTexts, ischall \in BOOLEAN :
          ucall' = [op |-> "tokenize", ischall |-> ischall, hdr |-> hdr,
                    r |-> tokenize(hdr, Uninit, Uninit, ischall)]
    /\ UNCHANGED <<uri_scheme, have_gssapi, ahs, req, error, last, nsent, wire>>

\* the next call of the loop, after a call that returned 0
tokenize_next ==
    /\ ucall.op = "tokenize"
    /\ ucall.r.ret = 0
    /\ ucall' = [ucall EXCEPT !.hdr = ucall.r.rest,
                              !.r = tokenize(ucall.r.rest, ucall.r.key,
                                             ucall.r.value, ucall.ischall)]
    /\ UNCHANGED <<uri_scheme, have_gssapi, ahs, req, error, last, nsent, wire>>

NextTokenize == tokenize_first \/ tokenize_next

SpecTokenize == Init /\ [][NextTokenize]_vars

(***************************************************************************)
(* C34: a call of tokenize that returns 0 has assigned *key and it is not  *)
(* NULL; with ischall = 0 it has assigned *value too and it is not NULL;   *)
(* with ischall = 1 it has assigned *value, to a value or to NULL for a    *)
(* bare token.                                                             *)
(***************************************************************************)
C34_TokenizeSetsKeyAndValue ==
    (ucall.op = "tokenize" /\ ucall.r.ret = 0)
       => /\ ucall.r.key # Nil
          /\ ucall.r.value_set
          /\ ~ucall.ischall => ucall.r.value # Nil

----------------------------------------------------------------------------
(* Properties of credentials after the session was cleaned *)

\* the step is a post_send of session i in which the validator that accepted
\* the challenge got credentials from the callback
FreshCredentials(i) ==
    /\ last'.op = "post_send" /\ last'.i = i
    /\ last'.accepted \in {"basic", "digest"}
    /\ last'.tried[Len(last'.tried)].calls > 0
    /\ last'.calls[Len(last'.calls)].ret = 0

(***************************************************************************)
(* C35: credentials given before the session was cleaned are not sent      *)
(* again.  ne_forget_auth and a failed challenge leave the session unable  *)
(* to handle requests; pre_send appends nothing for a session that cannot  *)
(* handle; and a session that cannot handle and still holds the username   *)
(* or H(A1) of earlier credentials can handle again only by a post_send    *)
(* whose accepted validator obtained credentials from the callback (or     *)
(* that accepted a Negotiate challenge, which uses none).                  *)
(***************************************************************************)
C35_NoCredentialsAfterClean ==
    [][ /\ last'.op = "forget" => \A i \in 1..Len(ahs') : ~ahs'[i].can_handle
        /\ (req.phase = "sent" /\ last'.op = "post_send"
            /\ last'.ret \in {NE_AUTH, NE_PROXYAUTH})
              => ~ahs'[last'.i].can_handle
        /\ (last'.op = "pre_send" /\ ~ahs[last'.i].can_handle) => Appended = <<>>
        /\ \A i \in 1..Len(ahs) :
              (/\ ~ahs[i].can_handle /\ ahs'[i].can_handle
               /\ (ahs[i].username # "" \/ ahs[i].h_a1 # H_A1_ZERO))
                 => (FreshCredentials(i)
                     \/ (last'.op = "post_send" /\ last'.i = i
                         /\ last'.accepted = "gssapi")) ]_vars

(***************************************************************************)
(* C36: whenever the session can handle requests with Digest and MD5-sess, *)
(* H(A1) is md5(hex(md5(username:realm:password)):nonce:cnonce) for the    *)
(* nonce and cnonce the session holds now, whatever fresh challenges,      *)
(* stale challenges and nextnonce updates came before.                     *)
(***************************************************************************)
C36_SessionKeyOfCurrentNonce ==
    \A i \in 1..Len(ahs) :
       (ahs[i].can_handle /\ ahs[i].scheme = "digest"
        /\ ahs[i].alg = "md5_sess")
          => \E pw \in {c.password : c \in CredsOutcomes} :
                ahs[i].h_a1 =
                   MD5Hex(MD5Hex(ahs[i].username \o ":" \o ahs[i].realm
                                 \o ":" \o pw)
                          \o ":" \o ahs[i].nonce \o ":" \o ahs[i].cnonce)

(***************************************************************************)
(* C37: a post_send whose Authentication-Info header is rejected leaves    *)
(* the nonce of the session as it was: the nextnonce of a rejected header  *)
(* is not installed.                                                       *)
(***************************************************************************)
C37_RejectedInfoKeepsNonce ==
    [][ (req.phase = "sent" /\ last'.op = "post_send"
         /\ last'.verify = "rejected")
          => ahs'[last'.i].nonce = ahs[last'.i].nonce ]_vars

(***************************************************************************)
(* C38: a request sent with the credentials of a session whose scheme is   *)
(* not Digest (will_handle is set; Basic or Negotiate) and answered with   *)
(* the info header of the class: verify_response rejects, post_send        *)
(* returns NE_ERROR and sets the message of the class as the error string, *)
(* whatever the status of the response, and no challenge of the response   *)
(* is processed.                                                           *)
(***************************************************************************)
C38_InfoOnNonDigestIsFatal ==
    [][ (/\ req.phase = "sent" /\ last'.op = "post_send" /\ last'.info
         /\ Areq(last'.i).will_handle
         /\ ahs[last'.i].scheme # "digest")
          => (/\ last'.verify = "rejected"
              /\ last'.ret = NE_ERROR
              /\ error' = ahs[last'.i].spec.fail_msg
              /\ last'.tried = <<>> /\ last'.calls = <<>>
              /\ last'.accepted = NULL /\ last'.value = <<>>
              /\ ahs'[last'.i] = ahs[last'.i]) ]_vars

\* a request sent with Basic credentials was answered with the status of
\* the class, a challenge header and an info header
C38_Witness ==
    /\ PostSent /\ last.info /\ last.gated /\ last.hdr
    /\ Areq(last.i).will_handle
    /\ ahs[last.i].scheme = "basic" /\ ahs[last.i].basic # NULL
    /\ last.ret = NE_ERROR

----------------------------------------------------------------------------
(* Retries of one request *)

\* the callback is called at most this often for the request
MaxAttempts == 2

\* the challenges of a server that answers every send of the request with
\* the status of the class and a challenge
RetryHeaders ==
    { <<Token("Basic"), Pair("realm", "r1")>>,
      <<Token("Digest"), Pair("realm", "r1"), Pair("nonce", "n1")>>,
      <<Token("Digest"), Pair("realm", "r1"), Pair("nonce", "n2"),
        Pair("stale", "true")>>,
      <<Token("GSS-Negotiate")>> }

\* the outcomes of the callback calls of one post_send: once the attempt
\* counter has reached MaxAttempts the user gives up
RetryCreds(i, hdr) ==
    IF ahs[i].attempt < MaxAttempts
    THEN CredsRuns(hdr)
    ELSE [1..NumTokens(hdr[1]) -> {CredsCancel}]

\* ah_post_send on a response with the status of the class and a challenge
ah_post_send_challenge(i) ==
    \E hdr \in {<<v>> : v \in RetryHeaders} :
       \E crs \in RetryCreds(i, hdr), gss \in GssRuns(hdr),
          cn \in CnonceRuns(hdr) :
          ah_post_send(i, ahs[i].spec.status_code, hdr, <<>>, crs, gss, cn, 0)

\* post_send has returned NE_RETRY and the engine sends the request again:
\* ah_pre_send runs for it once more
ah_pre_send_retry(i) ==
    /\ req.phase = "retry"
    /\ PreSend(i)
    /\ UNCHANGED nsent

NextRetry ==
    \/ \E i \in 1..Len(ahs), method \in Methods, uri \in Uris :
          ah_create(i, method, uri)
    \/ \E i \in 1..Len(ahs) : req.phase = "created" /\ ah_pre_send(i)
    \/ \E i \in 1..Len(ahs) : ah_pre_send_retry(i)
    \/ \E i \in 1..Len(ahs) : ah_post_send_challenge(i)

\* the engine runs the hooks of a request it has created until post_send
\* returns something other than NE_RETRY: it sends the request, reads the
\* response and runs post_send, and sends again on NE_RETRY
SpecRetry ==
    /\ Init /\ [][NextRetry]_vars
    /\ WF_vars(\E i \in 1..Len(ahs) : req.phase = "created" /\ ah_pre_send(i))
    /\ WF_vars(\E i \in 1..Len(ahs) : ah_pre_send_retry(i))
    /\ WF_vars(\E i \in 1..Len(ahs) : ah_post_send_challenge(i))

\* whether a header value holds stale=true
RECURSIVE SaysStale(_)
SaysStale(items) ==
    /\ items # <<>>
    /\ \/ (~Head(items).bare /\ strcaseeq(Head(items).key, "stale")
           /\ strcaseeq(Head(items).val, "true"))
       \/ SaysStale(Tail(items))

\* no callback call of the last post_send returned zero
CallbackRefused(l) == \A k \in 1..Len(l.calls) : l.calls[k].ret # 0

\* every NE_RETRY comes with a successful callback call, an accepted stale
\* Digest challenge or an accepted Negotiate challenge of the same post_send
RetryHasCause ==
    [][ (req.phase = "sent" /\ last'.op = "post_send" /\ last'.ret = NE_RETRY)
          => \/ (last'.calls # <<>> /\ last'.calls[Len(last'.calls)].ret = 0)
             \/ (last'.accepted = "digest" /\ last'.chall.stale)
             \/ last'.accepted = "gssapi" ]_vars

\* post_send has returned the fail code of the class
FailCodeReturned ==
    /\ PostSent /\ last.ret = ahs[last.i].spec.fail_code

(***************************************************************************)
(* C39: every NE_RETRY is preceded, within the same post_send, by a        *)
(* successful callback call, an accepted stale Digest challenge or an      *)
(* accepted Negotiate challenge; and for a request whose every response    *)
(* has the status of the class and a challenge, if from some point on no   *)
(* challenge says stale=true and the callback returns non-zero, a          *)
(* post_send that has returned NE_RETRY is followed by one that returns    *)
(* the fail code of the class.                                             *)
(***************************************************************************)
C39_RetryEnds ==
    /\ RetryHasCause
    /\ (<>[][ last'.op = "post_send"
                => (~SaysStale(last'.value) /\ CallbackRefused(last')) ]_vars)
          => [](req.phase = "retry" => <>FailCodeReturned)

(***************************************************************************)
(* C39, amended: the same, for a server that from some point on sends no   *)
(* stale=true challenge and no Negotiate challenge that is accepted.       *)
(***************************************************************************)
C39_RetryEndsWithoutNegotiate ==
    /\ RetryHasCause
    /\ (<>[][ last'.op = "post_send"
                => (/\ ~SaysStale(last'.value) /\ CallbackRefused(last')
                    /\ last'.accepted # "gssapi") ]_vars)
          => [](req.phase = "retry" => <>FailCodeReturned)

\* the request was retried after a successful callback call and then failed
\* when the callback refused
C39_Witness ==
    /\ FailCodeReturned
    /\ ahs[last.i].attempt > 1
    /\ last.calls # <<>> /\ CallbackRefused(last)

====
